---- MODULE Spec2Model ----
(***************************************************************************)
(* A model of the dsr-ai-router repository:                                *)
(*   - src/proxy/router_proxy.py : the HTTP proxy (ProxyHandler.do_POST,   *)
(*     the three route_* adapters and the message-block SSE emitter);      *)
(*   - src/scripts/smart_router.py : the CLI router (SmartRouter.route and *)
(*     the run() of its three tiers, one step per child process);          *)
(*   - src/proxy/gemini-bridge/gemini_bridge.py : the bridge               *)
(*     (call_gemini).                                                      *)
(* The programs are separate processes; each has its own next-state        *)
(* relation and specification over the same variables.                     *)
(*                                                                         *)
(* Texts are TLA+ strings; TLC evaluates Len, \o and SubSeq on them, so    *)
(* strip(), split() and slicing are computed character by character.       *)
(***************************************************************************)
EXTENDS Integers, Sequences, FiniteSets, TLC

(***************************************************************************)
(* Bounds of the model.                                                    *)
(***************************************************************************)
\* longest message list of a request
MaxMsgs == 2
\* most stdout lines the streaming LastResort process prints
MaxLines == 2
\* most content deltas the Primary backend streams
MaxDeltas == 2
\* largest max_retries_per_tier a configuration sets
MaxRetriesCfg == 2
\* most route() calls of one router process
MaxCalls == 1
\* longest list of tier2_gemini models a configuration sets
MaxModels == 2
\* longest text handed to the slicing emitters
MaxTextLen == 61
\* longest list of content blocks handed to the normalizer
MaxBlocks == 2
\* router processes appending to the history at the same time
MaxWriters == 3

(***************************************************************************)
(* Python string helpers.                                                  *)
(***************************************************************************)
Min(a, b) == IF a < b THEN a ELSE b

CharAt(s, i) == SubSeq(s, i, i)

\* str.isspace() for one character
IsSpace(c) == c \in {" ", "\n", "\t", "\r"}

RECURSIVE LStrip(_)
LStrip(s) ==
    IF Len(s) = 0 THEN s
    ELSE IF IsSpace(CharAt(s, 1)) THEN LStrip(SubSeq(s, 2, Len(s)))
    ELSE s

RECURSIVE RStrip(_)
RStrip(s) ==
    IF Len(s) = 0 THEN s
    ELSE IF IsSpace(CharAt(s, Len(s))) THEN RStrip(SubSeq(s, 1, Len(s) - 1))
    ELSE s

\* str.strip()
Strip(s) == RStrip(LStrip(s))

\* len(s.split()): the number of maximal runs of non-whitespace characters
RECURSIVE WordsFrom(_, _, _)
WordsFrom(s, i, inWord) ==
    IF i > Len(s) THEN 0
    ELSE IF IsSpace(CharAt(s, i)) THEN WordsFrom(s, i + 1, FALSE)
    ELSE (IF inWord THEN 0 ELSE 1) + WordsFrom(s, i + 1, TRUE)

\* len(s.split(" ")): one more than the number of blanks, 1 for the empty string
WordCountSplitOnBlank(s) ==
    1 + Cardinality({i \in 1..Len(s) : CharAt(s, i) = " "})

WordCount(s) == WordsFrom(s, 1, FALSE)

\* str.startswith
StartsWith(s, p) == Len(s) >= Len(p) /\ SubSeq(s, 1, Len(p)) = p

Last(q) == q[Len(q)]

\* str.lower(), for the letters A to Z
UpperCase == "ABCDEFGHIJKLMNOPQRSTUVWXYZ"
LowerCase == "abcdefghijklmnopqrstuvwxyz"

LowerChar(c) ==
    IF \E i \in 1..Len(UpperCase) : CharAt(UpperCase, i) = c
    THEN CharAt(LowerCase, CHOOSE i \in 1..Len(UpperCase) : CharAt(UpperCase, i) = c)
    ELSE c

RECURSIVE Lower(_)
Lower(s) ==
    IF Len(s) = 0 THEN s
    ELSE LowerChar(CharAt(s, 1)) \o Lower(SubSeq(s, 2, Len(s)))

\* p in s
Contains(s, p) ==
    \E i \in 1..(Len(s) - Len(p) + 1) : SubSeq(s, i, i + Len(p) - 1) = p

(***************************************************************************)
(* router_proxy.py: constants.                                             *)
(***************************************************************************)
T1_MODEL == "qwen3-coder:480b-cloud"
T1_LABEL == "qwen3-coder-480b"
T2_MODEL == "gemini-2.5-flash"
T3_MODEL == "claude-sonnet-4-6"

GEMINI_MODELS ==
    {"gemini-2.5-pro", "gemini-2.5-flash", "gemini-2.0-flash",
     "gemini-3-flash-preview", "gemini-3-pro-preview", "gemini-proxy"}

CLAUDE_REAL_MODELS ==
    {"claude-real", "claude-account", "claude-opus-4-6", "claude-opus"}

\* route_gemini: chunk_size
CHUNK_SIZE == 30

(***************************************************************************)
(* router_proxy.py: the message-block emitter.  An element of the wire is  *)
(* one SSE event; the generated message id is left out.                    *)
(***************************************************************************)
Event(e, model, text, stop, out) ==
    [ev |-> e, model |-> model, text |-> text, stop |-> stop, out |-> out]

start_stream(w, model) ==
    w \o << Event("message_start", model, "", "", 0),
            Event("content_block_start", "", "", "", 0) >>

send_chunk(w, text) ==
    Append(w, Event("content_block_delta", "", text, "", 0))

end_stream(w, output_tokens) ==
    w \o << Event("content_block_stop", "", "", "", 0),
            Event("message_delta", "", "", "end_turn", output_tokens),
            Event("message_stop", "", "", "", 0) >>

NoResponse ==
    [sent |-> FALSE, raw |-> FALSE, model |-> "", text |-> "",
     stop_reason |-> "", output_tokens |-> 0]

non_stream_response(model, text) ==
    [sent |-> TRUE, raw |-> FALSE, model |-> model, text |-> text,
     stop_reason |-> "end_turn", output_tokens |-> WordCount(text)]

\* route_gemini: for i in range(0, len(text), chunk_size): send_chunk(text[i:i+chunk_size])
RECURSIVE send_chunks(_, _, _)
send_chunks(w, text, i) ==
    IF i >= Len(text) THEN w
    ELSE send_chunks(send_chunk(w, SubSeq(text, i + 1, Min(i + CHUNK_SIZE, Len(text)))),
                     text, i + CHUNK_SIZE)

\* the concatenation of the content_block_delta texts of a stream
RECURSIVE DeltaText(_)
DeltaText(w) ==
    IF Len(w) = 0 THEN ""
    ELSE (IF Head(w).ev = "content_block_delta" THEN Head(w).text ELSE "")
         \o DeltaText(Tail(w))

(***************************************************************************)
(* Inputs of the proxy.                                                    *)
(***************************************************************************)
ModelIds ==
    {"claude-sonnet-4-6", "qwen3-coder-480b",
     "gemini-2.5-flash", "gemini-proxy", "gemini-2.5-pro-latest",
     "claude-opus", "claude-real", "claude-opus-4-6", "claude-real-2"}

Roles == {"user", "assistant"}

Message(role) == [role |-> role, content |-> "ping"]

MessageLists ==
    UNION { [1..n -> {Message(r) : r \in Roles}] : n \in 0..MaxMsgs }

\* what a CLI process prints on standard output
StdoutTexts ==
    {"", " \n", "pong\n", "The quick brown fox jumps over the lazy dogs.\n"}

\* what a CLI process prints on standard error, and fault details
StderrTexts == {"", "boom\n"}
FaultTexts == {"[Errno 2] No such file or directory"}

\* lines read from the streaming LastResort process
StdoutLines == {"pong\n", "a b\n", "\n"}

ExitCodes == {0, 1}

(***************************************************************************)
(* State.                                                                  *)
(***************************************************************************)
VARIABLES
    pc,         \* position of the proxy's handler
    body,       \* the request being served: model, stream, messages
    wire,       \* SSE events written to the client, in order
    resp,       \* the JSON response object sent (non-streaming)
    invoked,    \* the adapters invoked for this request, in order
    tokens,     \* route_claude_real: tokens
    nlines,     \* lines read so far from the LastResort process
    hung,       \* the LastResort process neither prints nor exits
    cand,       \* call_gemini_cli: index of the candidate being run
    cliModels,  \* call_gemini_cli: the model names passed to the CLI
    upstream,   \* events read from the Primary backend so far
    outcome,    \* how the last backend call of this request ended
    CFG,        \* smart_router: CFG["routing"], loaded once at start
    rpc,        \* smart_router: position of SmartRouter.route
    force_tier, \* smart_router: route()'s force_tier, 0 for None
    task,       \* smart_router: analyze_task(prompt)["type"]
    attempt,    \* smart_router: the loop variable of the retry loops
    calls,      \* smart_router: tiers whose run() this call invoked, in order
    history,    \* smart_router: lines of routing_history.jsonl
    result,     \* smart_router: what route() returned
    served,     \* smart_router: route() calls made so far
    apc,        \* smart_router: position of the tier's run() in progress
    ret,        \* smart_router: what the last run() to end returned or raised
    accepted,   \* smart_router: texts of this call's run()s that succeeded, non-blank
    gcand,      \* smart_router: GeminiTier.run's candidate number
    gmodel,     \* smart_router: route()'s gemini_model, "" for None
    glast,      \* smart_router: how GeminiTier.run's current candidate ended
    children,   \* smart_router: children of the current run() still running
    orphans,    \* smart_router: how many children of this call's earlier run()s still run
    logged,     \* smart_router: lines this call appended to the history
    probed,     \* smart_router: the is_available() answers this call got, in order
    bpc,        \* gemini_bridge: position of BridgeHandler.do_POST
    breq,       \* gemini_bridge: the request's model
    bcli,       \* gemini_bridge: call_gemini's CLI runs, model and outcome
    btext,      \* gemini_bridge: what call_gemini returned
    bstream,    \* gemini_bridge: the request's stream flag
    bwire,      \* gemini_bridge: lines of the event stream written to the client
    bresp,      \* gemini_bridge: the JSON response object sent (non-streaming)
    etext,      \* the text handed to the two slicing emitters
    nsystem,    \* messages_to_prompt: the argument system
    nmessages,  \* messages_to_prompt: the argument messages
    prompt,     \* messages_to_prompt: what the call returned or raised
    file,       \* routing_history.jsonl, its bytes in order
    wpc,        \* _log_routing: position of each writer process
    wline,      \* _log_routing: the line each writer handed to f.write
    wbuf        \* _log_routing: what each writer's file object has buffered

proxyVars ==
    << pc, body, wire, resp, invoked, tokens, nlines, hung, cand, cliModels, upstream,
       outcome >>

\* what SmartRouter.route itself reads and writes
routeVars ==
    << CFG, rpc, force_tier, task, attempt, history, result, served, accepted, logged,
       probed >>

\* what the run() of a tier reads and writes
tierVars == << apc, ret, gcand, gmodel, glast, children, orphans, calls >>

bridgeVars == << bpc, breq, bcli, btext, bstream, bwire, bresp >>

\* the functions checked on their own, and the history file with its writers
unitVars == << etext, nsystem, nmessages, prompt, file, wpc, wline, wbuf >>

routerVars == << routeVars, tierVars >>

vars == << proxyVars, routerVars, bridgeVars, unitVars >>

NoOutcome == [kind |-> "none", rc |-> 0, out |-> "", err |-> ""]

NoBody == [model |-> "", stream |-> FALSE, messages |-> << >>]

ProxyInit ==
    /\ pc = "idle"
    /\ body = NoBody
    /\ wire = << >>
    /\ resp = NoResponse
    /\ invoked = << >>
    /\ tokens = 0
    /\ nlines = 0
    /\ hung = FALSE
    /\ cand = 0
    /\ cliModels = << >>
    /\ upstream = << >>
    /\ outcome = NoOutcome

(***************************************************************************)
(* router_proxy.py: ProxyHandler.do_POST.                                  *)
(***************************************************************************)
\* LoopGuard looking at the first message instead of the last
LoopGuardFirstMessage(messages) ==
    Len(messages) > 0 /\ messages[1].role = "assistant"

\* the agentic loop guard: messages and messages[-1].get("role") == "assistant"
LoopGuard(messages) ==
    Len(messages) > 0 /\ Last(messages).role = "assistant"

\* Classify matching by prefix
ClassifyByPrefix(model) ==
    IF \E n \in CLAUDE_REAL_MODELS : StartsWith(model, n) THEN "T3"
    ELSE IF \E n \in GEMINI_MODELS : StartsWith(model, n) THEN "T2"
    ELSE "T1"

\* the if / elif / else on the model name
Classify(model) ==
    IF model \in CLAUDE_REAL_MODELS THEN "T3"
    ELSE IF model \in GEMINI_MODELS THEN "T2"
    ELSE "T1"

\* do_POST up to the first blocking call of the adapter it dispatches to
DoPOST(model, stream, messages) ==
    /\ UNCHANGED << routerVars, bridgeVars, unitVars >>
    /\ pc \in {"idle", "done"}
    /\ body' = [model |-> model, stream |-> stream, messages |-> messages]
    /\ tokens' = 0
    /\ nlines' = 0
    /\ hung' = FALSE
    /\ cliModels' = << >>
    /\ upstream' = << >>
    /\ outcome' = NoOutcome
    /\ IF LoopGuard(messages)
       THEN /\ pc' = "done"
            /\ invoked' = << >>
            /\ cand' = 0
            /\ wire' = IF stream THEN end_stream(start_stream(<< >>, model), 0)
                                 ELSE << >>
            /\ resp' = IF stream THEN NoResponse
                                 ELSE non_stream_response(model, "")
       ELSE /\ invoked' = << Classify(model) >>
            /\ resp' = NoResponse
            /\ cand' = IF Classify(model) = "T2" THEN 1 ELSE 0
            /\ wire' = IF Classify(model) = "T3" /\ stream
                       THEN start_stream(<< >>, T3_MODEL)
                       ELSE << >>
            /\ pc' = CASE Classify(model) = "T3" ->
                              (IF stream THEN "t3_popen" ELSE "t3_run")
                        [] Classify(model) = "T2" -> "t2_cli"
                        [] OTHER -> "t1_open"

(***************************************************************************)
(* router_proxy.py: route_claude_real, streaming branch.                   *)
(***************************************************************************)
\* subprocess.Popen returns: the child runs
T3Spawn ==
    /\ UNCHANGED << routerVars, bridgeVars, unitVars >>
    /\ pc = "t3_popen"
    /\ pc' = "t3_read"
    /\ UNCHANGED << body, wire, resp, invoked, tokens, nlines, hung, cand,
                    cliModels, upstream, outcome >>

\* except Exception: Popen, or the read of a line, raises
T3Fault(e) ==
    /\ UNCHANGED << routerVars, bridgeVars, unitVars >>
    /\ pc \in {"t3_popen", "t3_read"}
    /\ ~hung
    /\ outcome' = [kind |-> "fault", rc |-> 0, out |-> "", err |-> e]
    /\ wire' = end_stream(send_chunk(wire, "\n[Claude launch error: " \o e \o "]"),
                          tokens)
    /\ pc' = "done"
    /\ UNCHANGED << body, resp, invoked, tokens, nlines, hung, cand, cliModels,
                    upstream >>

\* for line in proc.stdout: one more line
T3ReadLine(line) ==
    /\ UNCHANGED << routerVars, bridgeVars, unitVars >>
    /\ pc = "t3_read"
    /\ ~hung
    /\ nlines < MaxLines
    /\ wire' = IF Len(line) > 0 THEN send_chunk(wire, line) ELSE wire
    /\ tokens' = IF Len(line) > 0 THEN tokens + WordCount(line) ELSE tokens
    /\ nlines' = nlines + 1
    /\ UNCHANGED << pc, body, resp, invoked, hung, cand, cliModels, upstream, outcome >>

\* for line in proc.stdout: end of file, on to proc.wait()
T3ReadEOF ==
    /\ UNCHANGED << routerVars, bridgeVars, unitVars >>
    /\ pc = "t3_read"
    /\ ~hung
    /\ pc' = "t3_wait"
    /\ UNCHANGED << body, wire, resp, invoked, tokens, nlines, hung, cand,
                    cliModels, upstream, outcome >>

\* T3Exit with the error fragment written after the stream was ended
T3ExitErrorAfterEnd(rc, err) ==
    /\ UNCHANGED << routerVars, bridgeVars, unitVars >>
    /\ pc = "t3_wait"
    /\ ~hung
    /\ outcome' = [kind |-> "exit", rc |-> rc, out |-> DeltaText(wire), err |-> err]
    /\ wire' = IF rc # 0
               THEN send_chunk(end_stream(wire, tokens),
                               "\n[Claude error: " \o Strip(err) \o "]")
               ELSE end_stream(wire, tokens)
    /\ pc' = "done"
    /\ UNCHANGED << body, resp, invoked, tokens, nlines, hung, cand, cliModels,
                    upstream >>

\* proc.wait() returns; a non-zero status adds the error fragment
T3Exit(rc, err) ==
    /\ UNCHANGED << routerVars, bridgeVars, unitVars >>
    /\ pc = "t3_wait"
    /\ ~hung
    /\ outcome' = [kind |-> "exit", rc |-> rc, out |-> DeltaText(wire), err |-> err]
    /\ wire' = end_stream(
                   IF rc # 0
                   THEN send_chunk(wire, "\n[Claude error: " \o Strip(err) \o "]")
                   ELSE wire,
                   tokens)
    /\ pc' = "done"
    /\ UNCHANGED << body, resp, invoked, tokens, nlines, hung, cand, cliModels,
                    upstream >>

\* the child stops printing and does not exit; Popen, the iteration over
\* proc.stdout and proc.wait() carry no timeout
T3Hang ==
    /\ UNCHANGED << routerVars, bridgeVars, unitVars >>
    /\ pc \in {"t3_read", "t3_wait"}
    /\ ~hung
    /\ hung' = TRUE
    /\ UNCHANGED << pc, body, wire, resp, invoked, tokens, nlines, cand,
                    cliModels, upstream, outcome >>

(***************************************************************************)
(* router_proxy.py: route_claude_real, non-streaming branch.               *)
(***************************************************************************)
\* what subprocess.run(..., timeout=180) ends with
RunOutcomes ==
    [kind : {"exit"}, rc : ExitCodes, out : StdoutTexts, err : StderrTexts]
    \cup [kind : {"timeout"}, rc : {0}, out : {""}, err : {"timed out after 180 seconds"}]
    \cup [kind : {"fault"}, rc : {0}, out : {""}, err : FaultTexts]

\* claude_real_text without the strip() of standard output
claude_real_text_unstripped(o) ==
    IF o.kind = "exit"
    THEN IF o.rc = 0 THEN o.out
         ELSE "[Claude error: " \o Strip(o.err) \o "]"
    ELSE "[Claude error: " \o o.err \o "]"

\* the text route_claude_real returns when stream is false
claude_real_text(o) ==
    IF o.kind = "exit"
    THEN IF o.rc = 0 THEN Strip(o.out)
         ELSE "[Claude error: " \o Strip(o.err) \o "]"
    ELSE "[Claude error: " \o o.err \o "]"

\* text = route_claude_real(...) or ""; self._send_json(text, model)
T3Run(o) ==
    /\ UNCHANGED << routerVars, bridgeVars, unitVars >>
    /\ pc = "t3_run"
    /\ outcome' = o
    /\ resp' = non_stream_response(body.model, claude_real_text(o))
    /\ pc' = "done"
    /\ UNCHANGED << body, wire, invoked, tokens, nlines, hung, cand, cliModels,
                    upstream >>

(***************************************************************************)
(* router_proxy.py: call_gemini_cli and route_gemini.                      *)
(***************************************************************************)
\* for model in [T2_MODEL, "gemini-2.5-flash"]
GeminiCandidates == << T2_MODEL, "gemini-2.5-flash" >>

\* what subprocess.run(..., timeout=90) ends with
CliOutcomes ==
    [kind : {"exit"}, rc : ExitCodes, out : StdoutTexts, err : {""}]
    \cup [kind : {"timeout"}, rc : {0}, out : {""}, err : {""}]
    \cup [kind : {"fault"}, rc : {0}, out : {""}, err : FaultTexts]

\* CliAccepted without the test of the stripped output
CliAcceptedOnStatus(o) == o.kind = "exit" /\ o.rc = 0

\* result.returncode == 0 and result.stdout.strip()
CliAccepted(o) == o.kind = "exit" /\ o.rc = 0 /\ Strip(o.out) # ""

\* the value call_gemini_cli returns once candidate number c ended with o;
\* only read when GeminiReturns(o, c) holds
gemini_cli_text(o, c) ==
    CASE o.kind = "timeout" -> "Gemini timeout"
      [] o.kind = "fault" -> "Gemini error: " \o o.err
      [] CliAccepted(o) -> Strip(o.out)
      [] OTHER -> "Gemini: no response"

\* GeminiReturns going on to the next candidate after a timeout or a fault
GeminiReturnsWhenAccepted(o, c) ==
    CliAccepted(o) \/ c >= Len(GeminiCandidates)

\* call_gemini_cli returns after candidate c, rather than trying the next one
GeminiReturns(o, c) ==
    o.kind # "exit" \/ CliAccepted(o) \/ c >= Len(GeminiCandidates)

\* route_gemini after call_gemini_cli: the synthesized stream
gemini_stream(model_label, text) ==
    end_stream(send_chunks(start_stream(<< >>, model_label), text, 0),
               WordCount(text))

\* one subprocess.run of the gemini CLI, and what follows it without blocking
T2Cli(o) ==
    /\ UNCHANGED << routerVars, bridgeVars, unitVars >>
    /\ pc = "t2_cli"
    /\ outcome' = o
    /\ cliModels' = Append(cliModels, GeminiCandidates[cand])
    /\ IF GeminiReturns(o, cand)
       THEN /\ pc' = "done"
            /\ cand' = cand
            /\ wire' = IF body.stream
                       THEN gemini_stream(body.model, gemini_cli_text(o, cand))
                       ELSE wire
            /\ resp' = IF body.stream
                       THEN resp
                       ELSE non_stream_response(body.model, gemini_cli_text(o, cand))
       ELSE /\ cand' = cand + 1
            /\ UNCHANGED << pc, wire, resp >>
    /\ UNCHANGED << body, invoked, tokens, nlines, hung, upstream >>

(***************************************************************************)
(* router_proxy.py: route_ollama_native.                                   *)
(***************************************************************************)
HttpCodes == {"500"}
ErrBodies == {"", "model not found"}
DeltaTexts == {"pong", "a b"}
BackendCounts == {2}

NDeltas(w) == Cardinality({i \in 1..Len(w) : w[i].ev = "content_block_delta"})

\* The events the backend may send next on its native message stream, one
\* event per chunk read: message_start, content_block_start, deltas,
\* content_block_stop, message_delta, message_stop.
NextUpstream(up) ==
    IF Len(up) = 0 THEN {Event("message_start", T1_MODEL, "", "", 0)}
    ELSE CASE Last(up).ev = "message_start" ->
                  {Event("content_block_start", "", "", "", 0)}
           [] Last(up).ev \in {"content_block_start", "content_block_delta"} ->
                  {Event("content_block_delta", "", t, "", 0) :
                       t \in IF NDeltas(up) < MaxDeltas THEN DeltaTexts ELSE {}}
                  \cup {Event("content_block_stop", "", "", "", 0)}
           [] Last(up).ev = "content_block_stop" ->
                  {Event("message_delta", "", "", "end_turn", n) : n \in BackendCounts}
           [] Last(up).ev = "message_delta" ->
                  {Event("message_stop", "", "", "", 0)}
           [] OTHER -> {}

\* every event the backend can send
UpstreamEvents ==
    {Event("message_start", T1_MODEL, "", "", 0),
     Event("content_block_start", "", "", "", 0),
     Event("content_block_stop", "", "", "", 0),
     Event("message_stop", "", "", "", 0)}
    \cup {Event("content_block_delta", "", t, "", 0) : t \in DeltaTexts}
    \cup {Event("message_delta", "", "", "end_turn", n) : n \in BackendCounts}

\* the JSON object the backend answers a non-streaming call with
BackendJson ==
    {[sent |-> TRUE, raw |-> TRUE, model |-> T1_MODEL, text |-> t,
      stop_reason |-> "end_turn", output_tokens |-> n] :
        t \in DeltaTexts, n \in BackendCounts}

\* the error text of the two except branches
qwen_http_error(code, err_body) == "[Qwen3 error " \o code \o ": " \o err_body \o "]"
qwen_error(e) == "[Qwen3 error: " \o e \o "]"

\* T1Failed handing the request to the Secondary adapter instead of answering
T1FailedEscalates(text, kind, detail) ==
    /\ UNCHANGED << routerVars, bridgeVars, unitVars >>
    /\ pc' = "t2_cli"
    /\ outcome' = [kind |-> kind, rc |-> 0, out |-> "", err |-> detail]
    /\ invoked' = Append(invoked, "T2")
    /\ cand' = 1
    /\ UNCHANGED << body, wire, resp, tokens, nlines, hung, cliModels, upstream >>

\* the except branches: a synthesized stream appended to what was written,
\* or a synthesized response object
T1Failed(text, kind, detail) ==
    /\ UNCHANGED << routerVars, bridgeVars, unitVars >>
    /\ pc' = "done"
    /\ outcome' = [kind |-> kind, rc |-> 0, out |-> "", err |-> detail]
    /\ wire' = IF body.stream
               THEN end_stream(send_chunk(start_stream(wire, T1_LABEL), text), 1)
               ELSE wire
    /\ resp' = IF body.stream THEN resp ELSE non_stream_response(T1_LABEL, text)
    /\ UNCHANGED << body, invoked, tokens, nlines, hung, cand, cliModels, upstream >>

\* urlopen answers 200; when stream is false resp.read() returns the body
T1Open(json) ==
    /\ UNCHANGED << routerVars, bridgeVars, unitVars >>
    /\ pc = "t1_open"
    /\ pc' = IF body.stream THEN "t1_read" ELSE "done"
    /\ resp' = IF body.stream THEN resp ELSE json
    /\ outcome' = IF body.stream THEN outcome
                  ELSE [kind |-> "exit", rc |-> 0, out |-> json.text, err |-> ""]
    /\ UNCHANGED << body, wire, invoked, tokens, nlines, hung, cand, cliModels,
                    upstream >>

\* urlopen raises HTTPError
T1HttpError(code, err_body) ==
    /\ pc = "t1_open"
    /\ T1Failed(qwen_http_error(code, err_body), "http", err_body)

\* urlopen or resp.read raises anything else (refused, reset, timeout)
T1Fault(e) ==
    /\ pc \in {"t1_open", "t1_read"}
    /\ T1Failed(qwen_error(e), "fault", e)

\* T1ReadChunk opening an envelope of the emitter in front of what it forwards
T1ReadChunkEnveloped(chunk) ==
    /\ UNCHANGED << routerVars, bridgeVars, unitVars >>
    /\ pc = "t1_read"
    /\ chunk \in NextUpstream(upstream)
    /\ upstream' = Append(upstream, chunk)
    /\ wire' = Append(IF wire = << >> THEN start_stream(wire, T1_LABEL) ELSE wire, chunk)
    /\ UNCHANGED << pc, body, resp, invoked, tokens, nlines, hung, cand, cliModels, outcome >>

\* chunk = resp.read(4096); wfile.write(chunk)
T1ReadChunk(chunk) ==
    /\ UNCHANGED << routerVars, bridgeVars, unitVars >>
    /\ pc = "t1_read"
    /\ chunk \in NextUpstream(upstream)
    /\ upstream' = Append(upstream, chunk)
    /\ wire' = Append(wire, chunk)
    /\ UNCHANGED << pc, body, resp, invoked, tokens, nlines, hung, cand, cliModels, outcome >>

\* resp.read(4096) returns b"": the backend ended its response
T1ReadEOF ==
    /\ UNCHANGED << routerVars, bridgeVars, unitVars >>
    /\ pc = "t1_read"
    /\ NextUpstream(upstream) = {}
    /\ pc' = "done"
    /\ outcome' = [kind |-> "exit", rc |-> 0, out |-> DeltaText(upstream), err |-> ""]
    /\ UNCHANGED << body, wire, resp, invoked, tokens, nlines, hung, cand,
                    cliModels, upstream >>

ProxyNext ==
    \/ \E m \in ModelIds, s \in BOOLEAN, ms \in MessageLists : DoPOST(m, s, ms)
    \/ T3Spawn
    \/ \E e \in FaultTexts : T3Fault(e)
    \/ \E l \in StdoutLines : T3ReadLine(l)
    \/ T3ReadEOF
    \/ \E rc \in ExitCodes, err \in StderrTexts : T3Exit(rc, err)
    \/ T3Hang
    \/ \E o \in RunOutcomes : T3Run(o)
    \/ \E o \in CliOutcomes : T2Cli(o)
    \/ \E j \in BackendJson : T1Open(j)
    \/ \E c \in HttpCodes, b \in ErrBodies : T1HttpError(c, b)
    \/ \E e \in FaultTexts : T1Fault(e)
    \/ \E ch \in UpstreamEvents : T1ReadChunk(ch)
    \/ T1ReadEOF

(***************************************************************************)
(* smart_router.py: configuration and inputs.                              *)
(***************************************************************************)
\* the message route() returns when no tier served the request (its leading
\* cross-mark glyph is left out)
ALL_TIERS_FAILED ==
    "All tiers failed. Check: ollama serve | gemini auth login | ANTHROPIC_API_KEY"

\* CFG["routing"] as load_config() can return it: the defaults, or what
\* config.json sets for the three keys route() reads
RoutingConfigs ==
    [max_retries_per_tier : 0..MaxRetriesCfg,
     escalate_on_failure : BOOLEAN,
     always_try_t1_first : BOOLEAN]

TaskTypes == {"coding", "general"}

\* DEFAULT_CONFIG["tier2_gemini"]["models"]; "default_model" is its first
DEFAULT_TIER2_MODELS ==
    << "gemini-2.5-pro", "gemini-2.5-flash", "gemini-2.0-flash", "gemini-2.0-pro",
       "gemini-3.0-preview" >>

\* self.cfg["models"]: the default list, which config.json cuts to its first
\* MaxModels
TIER2_MODELS == SubSeq(DEFAULT_TIER2_MODELS, 1, Min(MaxModels, Len(DEFAULT_TIER2_MODELS)))

\* DEFAULT_CONFIG["tier2_gemini"]["default_model"]
TIER2_DEFAULT_MODEL == "gemini-2.5-pro"

\* attempt_models keeping the requested model in the list that follows it
attempt_models_unfiltered(model) ==
    LET first == IF model = "" THEN TIER2_DEFAULT_MODEL ELSE model
    IN  << first >> \o TIER2_MODELS

\* model = model or self.cfg["default_model"], then the candidates of the
\* loop: [model] + [m for m in self.cfg["models"] if m != model]
attempt_models(model) ==
    LET first == IF model = "" THEN TIER2_DEFAULT_MODEL ELSE model
    IN  << first >> \o SelectSeq(TIER2_MODELS, LAMBDA m : m # first)

\* --gemini-model / the REPL's /gemini: absent, a configured model that is
\* not the default, the default named explicitly, a model not configured
GeminiRequests == {"", "gemini-2.5-flash", "gemini-2.5-pro", "gemini-exp"}

\* the CLI router is run without --gemini-model
RouterRequests == {""}

\* The (ok, text) pairs the tiers' run() return.
Result(ok, out) == [kind |-> "return", ok |-> ok, out |-> out]

\* no run() has returned yet
NoRet == [kind |-> "none", ok |-> FALSE, out |-> ""]

\* OllamaTier.run, stream=True: the accumulated text unstripped on success;
\* the Popen of `ollama pull` stands outside the try and may raise
OllamaResults ==
    {Result(TRUE, t) : t \in {"pong", " two words\n"}}
    \cup {Result(FALSE, t) : t \in {"Model not available, pull initiated",
                                     "Empty or failed response", "Timeout"}}
    \cup {Result(FALSE, e) : e \in FaultTexts}
    \cup {[kind |-> "raise", ok |-> FALSE, out |-> "FileNotFoundError"]}

\* GeminiTier.run
GeminiResults ==
    {Result(TRUE, t) : t \in {"pong", "two words"}}
    \cup {Result(FALSE, t) : t \in {"Auth required", "All Gemini models failed"}}

\* ClaudeTier.run: standard error, or the fault's text, on failure
ClaudeResults ==
    {Result(TRUE, t) : t \in {"pong", "two words"}}
    \cup {Result(FALSE, t) : t \in {"", "boom\n", "Claude timeout"}}
    \cup {Result(FALSE, e) : e \in FaultTexts}

\* what a child process of a tier ends with, seen from the wait on it: it
\* exits in time, or the wait times out
ChildOutcomes(outs, errs) ==
    [kind : {"exit"}, rc : ExitCodes, out : outs, err : errs]
    \cup [kind : {"timeout"}, rc : {0}, out : {""}, err : {""}]

\* curl of /api/generate: out is "".join(output_parts)
OllamaOutcomes == ChildOutcomes({"pong", " two words\n", " \n"}, {""})

\* the gemini CLI
GeminiOutcomes ==
    ChildOutcomes({"pong\n", " two words\n", " \n"}, {"", "boom\n", "Please LOGIN first\n"})

\* the claude CLI
ClaudeOutcomes == ChildOutcomes({"pong\n", " two words\n", " \n"}, {"", "boom\n"})

\* DEFAULT_CONFIG["routing"]
DEFAULT_ROUTING ==
    [max_retries_per_tier |-> 2,
     escalate_on_failure |-> TRUE,
     always_try_t1_first |-> TRUE]

\* SmartRouter(): no call of route() yet
RouterIdle ==
    /\ rpc = "idle"
    /\ force_tier = 0
    /\ task = "general"
    /\ attempt = 0
    /\ calls = << >>
    /\ history = << >>
    /\ result = ""
    /\ served = 0
    /\ accepted = << >>
    /\ logged = 0
    /\ probed = << >>
    /\ apc = "idle"
    /\ ret = NoRet
    /\ gcand = 0
    /\ gmodel = ""
    /\ glast = NoOutcome
    /\ children = << >>
    /\ orphans = 0

(***************************************************************************)
(* smart_router.py: the run() of the three tiers.  A child process that is *)
(* started joins children; it leaves when the program has seen it exit.    *)
(* A child the program stops waiting for stays: nothing terminates it.     *)
(***************************************************************************)
\* the tier whose run() route() is in, 0 when it is in none
InRun ==
    CASE rpc = "forced" -> force_tier
      [] rpc = "t1_run" -> 1
      [] rpc = "t2_run" -> 2
      [] rpc = "t3_run" -> 3
      [] OTHER -> 0

\* return r, or raise when r is a raise
Return(r) == apc' = "done" /\ ret' = r

\* OllamaTier.run up to its first wait: get_available_model(), then the
\* Popen of `ollama pull` (never waited for) or of the streaming curl
OllamaRun(found, launched, e) ==
    /\ InRun = 1
    /\ apc = "idle"
    /\ calls' = Append(calls, 1)
    /\ orphans' = orphans + Len(children)
    /\ IF ~found
       THEN IF launched
            THEN /\ children' = << "ollama pull" >>
                 /\ Return(Result(FALSE, "Model not available, pull initiated"))
            ELSE /\ children' = << >>
                 /\ Return([kind |-> "raise", ok |-> FALSE, out |-> "FileNotFoundError"])
       ELSE IF launched
            THEN /\ children' = << "curl" >>
                 /\ apc' = "t1_wait"
                 /\ ret' = ret
            ELSE /\ children' = << >>
                 /\ Return(Result(FALSE, e))
    /\ UNCHANGED << gcand, gmodel, glast >>
    /\ UNCHANGED routeVars
    /\ UNCHANGED << proxyVars, bridgeVars, unitVars >>

\* the read loop ends and process.wait(timeout=t1_timeout_seconds) returns
\* or raises TimeoutExpired
OllamaWait(o) ==
    /\ apc = "t1_wait"
    /\ IF o.kind = "exit"
       THEN /\ children' = << >>
            /\ Return(IF o.rc = 0 /\ Strip(o.out) # ""
                      THEN Result(TRUE, o.out)
                      ELSE Result(FALSE, "Empty or failed response"))
       ELSE /\ children' = children
            /\ Return(Result(FALSE, "Timeout"))
    /\ UNCHANGED << gcand, gmodel, glast, orphans, calls >>
    /\ UNCHANGED routeVars
    /\ UNCHANGED << proxyVars, bridgeVars, unitVars >>

\* GeminiTier.run after candidate number k failed: the next candidate, or
\* the return after the loop
GeminiContinue(k) ==
    IF k < Len(attempt_models(gmodel))
    THEN apc' = "t2_next" /\ ret' = ret
    ELSE Return(Result(FALSE, "All Gemini models failed"))

\* Popen raised for the candidate: there is no child to wait for
LaunchFault == [kind |-> "fault", rc |-> 0, out |-> "", err |-> ""]

\* "auth" in errors.lower() or "login" in errors.lower()
AuthError(errors) ==
    Contains(Lower(errors), "auth") \/ Contains(Lower(errors), "login")

\* GeminiTier.run: _build_cmd and Popen for the next candidate; a fault is
\* logged and the loop continues
GeminiLaunch(launched) ==
    /\ InRun = 2
    /\ apc \in {"idle", "t2_next"}
    /\ calls' = IF apc = "idle" THEN Append(calls, 2) ELSE calls
    /\ orphans' = IF apc = "idle" THEN orphans + Len(children) ELSE orphans
    /\ LET k == IF apc = "idle" THEN 1 ELSE gcand + 1
           mine == IF apc = "idle" THEN << >> ELSE children
       IN  /\ gcand' = k
           /\ IF launched
              THEN /\ children' = Append(mine, "gemini")
                   /\ glast' = NoOutcome
                   /\ apc' = "t2_wait"
                   /\ ret' = ret
              ELSE /\ children' = mine
                   /\ glast' = LaunchFault
                   /\ GeminiContinue(k)
    /\ UNCHANGED gmodel
    /\ UNCHANGED routeVars
    /\ UNCHANGED << proxyVars, bridgeVars, unitVars >>

\* process.communicate(timeout=t2_timeout_seconds) returns or raises
\* TimeoutExpired; after the timeout the loop continues
GeminiCommunicate(o) ==
    /\ apc = "t2_wait"
    /\ IF o.kind = "exit"
       THEN /\ children' = SubSeq(children, 1, Len(children) - 1)
            /\ IF o.rc = 0 /\ Strip(o.out) # ""
               THEN Return(Result(TRUE, Strip(o.out)))
               ELSE IF AuthError(o.err)
               THEN Return(Result(FALSE, "Auth required"))
               ELSE GeminiContinue(gcand)
       ELSE /\ children' = children
            /\ GeminiContinue(gcand)
    /\ glast' = o
    /\ UNCHANGED << gcand, gmodel, orphans, calls >>
    /\ UNCHANGED routeVars
    /\ UNCHANGED << proxyVars, bridgeVars, unitVars >>

\* ClaudeTier.run: Popen of the claude CLI
ClaudeLaunch(launched, e) ==
    /\ InRun = 3
    /\ apc = "idle"
    /\ calls' = Append(calls, 3)
    /\ orphans' = orphans + Len(children)
    /\ IF launched
       THEN /\ children' = << "claude" >>
            /\ apc' = "t3_wait"
            /\ ret' = ret
       ELSE /\ children' = << >>
            /\ Return(Result(FALSE, e))
    /\ UNCHANGED << gcand, gmodel, glast >>
    /\ UNCHANGED routeVars
    /\ UNCHANGED << proxyVars, bridgeVars, unitVars >>

\* process.communicate(input=prompt, timeout=t3_timeout_seconds) returns or
\* raises TimeoutExpired
ClaudeCommunicate(o) ==
    /\ apc = "t3_wait"
    /\ IF o.kind = "exit"
       THEN /\ children' = << >>
            /\ Return(IF o.rc = 0 /\ Strip(o.out) # ""
                      THEN Result(TRUE, Strip(o.out))
                      ELSE Result(FALSE, o.err))
       ELSE /\ children' = children
            /\ Return(Result(FALSE, "Claude timeout"))
    /\ UNCHANGED << gcand, gmodel, glast, orphans, calls >>
    /\ UNCHANGED routeVars
    /\ UNCHANGED << proxyVars, bridgeVars, unitVars >>

(***************************************************************************)
(* smart_router.py: SmartRouter.route.                                     *)
(***************************************************************************)
\* _log_routing writing the Primary tier's label whatever tier it is given
_log_routing_primary_label(h, tier, task_type, success) ==
    Append(h, [tier |-> "T1_OLLAMA_QWEN", task_type |-> task_type, success |-> success])

\* _log_routing: one line appended to routing_history.jsonl (its timestamp
\* is left out)
_log_routing(h, tier, task_type, success) ==
    Append(h, [tier |-> tier, task_type |-> task_type, success |-> success])

\* Accepted taking any non-blank text, whatever ok says
AcceptedAnyText(r) == Strip(r.out) # ""

\* ok and output.strip(), the test of the T1 and T2 loops
Accepted(r) == r.ok /\ Strip(r.out) # ""

\* route() is called; a forced tier goes to its single run(), auto-routing
\* to the test of always_try_t1_first
Route(f, tt, m) ==
    /\ rpc \in {"idle", "returned", "raised"}
    /\ served < MaxCalls
    /\ served' = served + 1
    /\ force_tier' = f
    /\ task' = tt
    /\ attempt' = 0
    /\ calls' = << >>
    /\ result' = ""
    /\ accepted' = << >>
    /\ logged' = 0
    /\ probed' = << >>
    /\ apc' = "idle"
    /\ ret' = NoRet
    /\ gcand' = 0
    /\ gmodel' = m
    /\ glast' = NoOutcome
    /\ children' = << >>
    /\ orphans' = 0
    /\ rpc' = IF f \in {1, 2, 3} THEN "forced"
              ELSE IF CFG.always_try_t1_first THEN "t1_probe" ELSE "t2_probe"
    /\ UNCHANGED << CFG, history >>
    /\ UNCHANGED << proxyVars, bridgeVars, unitVars >>

\* the accepted texts once a run() has returned r
Taken(r) == IF r.ok /\ Strip(r.out) # "" THEN Append(accepted, r.out) ELSE accepted

\* ok, output = self.tN.run(...): the run() in progress has returned r
TierReturned(r) ==
    /\ apc = "done"
    /\ r = ret
    /\ apc' = "idle"
    /\ glast' = NoOutcome
    /\ UNCHANGED << ret, gcand, gmodel, children, orphans, calls >>

\* RouteForced running the forced tier once more after a failure
RouteForcedRetries(r) ==
    /\ rpc = "forced"
    /\ TierReturned(r)
    /\ IF r.kind = "raise"
       THEN rpc' = "raised" /\ UNCHANGED << result, accepted >>
       ELSE /\ rpc' = IF r.ok \/ Len(calls) > 1 THEN "returned" ELSE "forced"
            /\ accepted' = Taken(r)
            /\ result' = IF r.ok THEN r.out
                         ELSE CASE force_tier = 1 -> "T1 failed"
                                [] force_tier = 2 -> "T2 failed"
                                [] OTHER -> "T3 failed"
    /\ UNCHANGED << CFG, force_tier, task, attempt, history, served, logged, probed >>
    /\ UNCHANGED << proxyVars, bridgeVars, unitVars >>

\* force_tier in (1, 2, 3): one run() of that tier, no retry, no log line
RouteForced(r) ==
    /\ rpc = "forced"
    /\ TierReturned(r)
    /\ IF r.kind = "raise"
       THEN rpc' = "raised" /\ UNCHANGED << result, accepted >>
       ELSE /\ rpc' = "returned"
            /\ accepted' = Taken(r)
            /\ result' = IF r.ok THEN r.out
                         ELSE CASE force_tier = 1 -> "T1 failed"
                                [] force_tier = 2 -> "T2 failed"
                                [] OTHER -> "T3 failed"
    /\ UNCHANGED << CFG, force_tier, task, attempt, history, served, logged, probed >>
    /\ UNCHANGED << proxyVars, bridgeVars, unitVars >>

\* where route() goes once the T2 block is over: the T3 block when
\* escalate_on_failure is set, the final return otherwise
AfterT2 == IF CFG.escalate_on_failure THEN "t3_run" ELSE "returned"

\* ... and the value returned there
AfterT2Result == IF CFG.escalate_on_failure THEN result ELSE ALL_TIERS_FAILED

\* RouteT1Probe entering the T1 loop whatever is_available() answered
RouteT1ProbeIgnored(available) ==
    /\ rpc = "t1_probe"
    /\ rpc' = IF CFG.max_retries_per_tier > 0 THEN "t1_run" ELSE "t2_probe"
    /\ attempt' = 0
    /\ probed' = Append(probed, [tier |-> 1, available |-> available])
    /\ UNCHANGED << CFG, force_tier, task, history, result, served, accepted, logged >>
    /\ UNCHANGED tierVars
    /\ UNCHANGED << proxyVars, bridgeVars, unitVars >>

\* self.t1.is_available() answers; range(max_retries_per_tier) may be empty
RouteT1Probe(available) ==
    /\ rpc = "t1_probe"
    /\ rpc' = IF available /\ CFG.max_retries_per_tier > 0 THEN "t1_run" ELSE "t2_probe"
    /\ attempt' = 0
    /\ probed' = Append(probed, [tier |-> 1, available |-> available])
    /\ UNCHANGED << CFG, force_tier, task, history, result, served, accepted, logged >>
    /\ UNCHANGED tierVars
    /\ UNCHANGED << proxyVars, bridgeVars, unitVars >>

\* RouteT1Run with the retry loop running one time too many
RouteT1RunOffByOne(r) ==
    /\ rpc = "t1_run"
    /\ TierReturned(r)
    /\ IF r.kind = "raise"
       THEN rpc' = "raised" /\ UNCHANGED << attempt, history, result, accepted, logged >>
       ELSE /\ accepted' = Taken(r)
            /\ IF Accepted(r)
               THEN /\ history' = _log_routing(history, "T1_OLLAMA_QWEN", task, TRUE)
                    /\ logged' = logged + 1
                    /\ result' = r.out
                    /\ rpc' = "returned"
                    /\ attempt' = attempt
               ELSE /\ attempt' = attempt + 1
                    /\ rpc' = IF attempt + 1 <= CFG.max_retries_per_tier THEN "t1_run"
                              ELSE "t2_probe"
                    /\ UNCHANGED << history, result, logged >>
    /\ UNCHANGED << CFG, force_tier, task, served, probed >>
    /\ UNCHANGED << proxyVars, bridgeVars, unitVars >>

\* one self.t1.run(prompt) of the T1 loop has returned or raised
RouteT1Run(r) ==
    /\ rpc = "t1_run"
    /\ TierReturned(r)
    /\ IF r.kind = "raise"
       THEN rpc' = "raised" /\ UNCHANGED << attempt, history, result, accepted, logged >>
       ELSE /\ accepted' = Taken(r)
            /\ IF Accepted(r)
               THEN /\ history' = _log_routing(history, "T1_OLLAMA_QWEN", task, TRUE)
                    /\ logged' = logged + 1
                    /\ result' = r.out
                    /\ rpc' = "returned"
                    /\ attempt' = attempt
               ELSE /\ attempt' = attempt + 1
                    /\ rpc' = IF attempt + 1 < CFG.max_retries_per_tier THEN "t1_run"
                              ELSE "t2_probe"
                    /\ UNCHANGED << history, result, logged >>
    /\ UNCHANGED << CFG, force_tier, task, served, probed >>
    /\ UNCHANGED << proxyVars, bridgeVars, unitVars >>

\* self.t2.is_available() answers
RouteT2Probe(available) ==
    /\ rpc = "t2_probe"
    /\ rpc' = IF available /\ CFG.max_retries_per_tier > 0 THEN "t2_run" ELSE AfterT2
    /\ result' = IF available /\ CFG.max_retries_per_tier > 0 THEN result
                 ELSE AfterT2Result
    /\ attempt' = 0
    /\ probed' = Append(probed, [tier |-> 2, available |-> available])
    /\ UNCHANGED << CFG, force_tier, task, history, served, accepted, logged >>
    /\ UNCHANGED tierVars
    /\ UNCHANGED << proxyVars, bridgeVars, unitVars >>

\* one self.t2.run(prompt, model=gemini_model) of the T2 loop has returned
RouteT2Run(r) ==
    /\ rpc = "t2_run"
    /\ TierReturned(r)
    /\ accepted' = Taken(r)
    /\ IF Accepted(r)
       THEN /\ history' = _log_routing(history, "T2_GEMINI", task, TRUE)
            /\ logged' = logged + 1
            /\ result' = r.out
            /\ rpc' = "returned"
            /\ attempt' = attempt
       ELSE /\ attempt' = attempt + 1
            /\ rpc' = IF attempt + 1 < CFG.max_retries_per_tier THEN "t2_run"
                      ELSE AfterT2
            /\ result' = IF attempt + 1 < CFG.max_retries_per_tier THEN result
                         ELSE AfterT2Result
            /\ UNCHANGED << history, logged >>
    /\ UNCHANGED << CFG, force_tier, task, served, probed >>
    /\ UNCHANGED << proxyVars, bridgeVars, unitVars >>

\* RouteT3Run inside a retry loop of max_retries_per_tier rounds
RouteT3RunRetries(r) ==
    /\ rpc = "t3_run"
    /\ TierReturned(r)
    /\ accepted' = Taken(r)
    /\ IF r.ok
       THEN /\ history' = _log_routing(history, "T3_CLAUDE_LAST_RESORT", task, TRUE)
            /\ logged' = logged + 1
            /\ result' = r.out
            /\ rpc' = "returned"
       ELSE /\ rpc' = IF Len(SelectSeq(calls, LAMBDA t : t = 3)) < CFG.max_retries_per_tier
                      THEN "t3_run" ELSE "returned"
            /\ result' = IF Len(SelectSeq(calls, LAMBDA t : t = 3)) < CFG.max_retries_per_tier
                         THEN result ELSE ALL_TIERS_FAILED
            /\ UNCHANGED << history, logged >>
    /\ UNCHANGED << CFG, force_tier, task, attempt, served, probed >>
    /\ UNCHANGED << proxyVars, bridgeVars, unitVars >>

\* the one self.t3.run(prompt) has returned; ok alone decides
RouteT3Run(r) ==
    /\ rpc = "t3_run"
    /\ TierReturned(r)
    /\ accepted' = Taken(r)
    /\ IF r.ok
       THEN /\ history' = _log_routing(history, "T3_CLAUDE_LAST_RESORT", task, TRUE)
            /\ logged' = logged + 1
            /\ result' = r.out
       ELSE /\ result' = ALL_TIERS_FAILED
            /\ UNCHANGED << history, logged >>
    /\ rpc' = "returned"
    /\ UNCHANGED << CFG, force_tier, task, attempt, served, probed >>
    /\ UNCHANGED << proxyVars, bridgeVars, unitVars >>

RouterNext ==
    \/ \E f \in 0..3, tt \in TaskTypes, m \in RouterRequests : Route(f, tt, m)
    \/ \E r \in OllamaResults \cup GeminiResults \cup ClaudeResults : RouteForced(r)
    \/ \E a \in BOOLEAN : RouteT1Probe(a)
    \/ \E found, launched \in BOOLEAN, e \in FaultTexts : OllamaRun(found, launched, e)
    \/ \E o \in OllamaOutcomes : OllamaWait(o)
    \/ \E r \in OllamaResults : RouteT1Run(r)
    \/ \E a \in BOOLEAN : RouteT2Probe(a)
    \/ \E launched \in BOOLEAN : GeminiLaunch(launched)
    \/ \E o \in GeminiOutcomes : GeminiCommunicate(o)
    \/ \E r \in GeminiResults : RouteT2Run(r)
    \/ \E launched \in BOOLEAN, e \in FaultTexts : ClaudeLaunch(launched, e)
    \/ \E o \in ClaudeOutcomes : ClaudeCommunicate(o)
    \/ \E r \in ClaudeResults : RouteT3Run(r)

(***************************************************************************)
(* gemini_bridge.py: BridgeHandler.do_POST and call_gemini.                *)
(***************************************************************************)
\* GEMINI_MODELS of the bridge: the names it maps, and what it maps them to
BRIDGE_GEMINI_MODELS ==
    [m \in {"gemini-2.5-pro", "gemini-2.5-flash", "gemini-2.0-flash",
            "gemini-3-flash-preview", "gemini-3-pro-preview"} |-> m]
    @@ ("gemini-proxy" :> "gemini-2.5-pro")

DEFAULT_MODEL == "gemini-2.5-pro"

\* body.get("model", DEFAULT_MODEL) of the requests the bridge receives
BridgeModelIds == {"gemini-2.5-pro", "gemini-2.5-flash", "gemini-proxy", "gpt-4"}

\* GEMINI_MODELS.get(model, DEFAULT_MODEL)
gemini_model(model) ==
    IF model \in DOMAIN BRIDGE_GEMINI_MODELS THEN BRIDGE_GEMINI_MODELS[model]
    ELSE DEFAULT_MODEL

\* for attempt_model in [gemini_model, DEFAULT_MODEL]
BridgeCandidates(model) == << gemini_model(model), DEFAULT_MODEL >>

\* stream_openai_response: chunk_size
BRIDGE_CHUNK_SIZE == 20

\* One "data: ..." line of the chat-completion-chunk stream: the chunk's
\* model, the keys of its delta with their values, and finish_reason ("" for
\* None).  The generated id and the creation time are left out.
Chunk(model, keys, role, content, finish_reason) ==
    [line |-> "chunk", model |-> model, keys |-> keys, role |-> role,
     content |-> content, finish_reason |-> finish_reason]

\* data: [DONE]
DONE ==
    [line |-> "[DONE]", model |-> "", keys |-> {}, role |-> "", content |-> "",
     finish_reason |-> ""]

\* content_chunks stepping one character further than a slice is long
RECURSIVE content_chunks_skipping(_, _, _, _)
content_chunks_skipping(w, text, model, i) ==
    IF i >= Len(text) THEN w
    ELSE content_chunks_skipping(
             Append(w, Chunk(model, {"content"}, "",
                             SubSeq(text, i + 1, Min(i + BRIDGE_CHUNK_SIZE, Len(text))),
                             "")),
             text, model, i + BRIDGE_CHUNK_SIZE + 1)

\* for i in range(0, len(text), chunk_size): piece = text[i:i + chunk_size]
RECURSIVE content_chunks(_, _, _, _)
content_chunks(w, text, model, i) ==
    IF i >= Len(text) THEN w
    ELSE content_chunks(
             Append(w, Chunk(model, {"content"}, "",
                             SubSeq(text, i + 1, Min(i + BRIDGE_CHUNK_SIZE, Len(text))),
                             "")),
             text, model, i + BRIDGE_CHUNK_SIZE)

\* stream_openai_response with the stop reason on the last content chunk
\* instead of a chunk of its own
stream_openai_response_stop_on_last(w, text, model) ==
    LET c == content_chunks(
                 Append(w, Chunk(model, {"role", "content"}, "assistant", "", "")),
                 text, model, 0)
    IN  SubSeq(c, 1, Len(c) - 1)
        \o << [c[Len(c)] EXCEPT !.finish_reason = "stop"], DONE >>

\* the role chunk, the content chunks, the stop chunk and the sentinel
stream_openai_response(w, text, model) ==
    content_chunks(Append(w, Chunk(model, {"role", "content"}, "assistant", "", "")),
                   text, model, 0)
    \o << Chunk(model, {}, "", "", "stop"), DONE >>

NoCompletion ==
    [sent |-> FALSE, model |-> "", content |-> "", finish_reason |-> "",
     completion_tokens |-> 0]

\* the chat.completion object of the non-streaming branch
chat_completion(model, text) ==
    [sent |-> TRUE, model |-> model, content |-> text, finish_reason |-> "stop",
     completion_tokens |-> WordCount(text)]

\* the bridge process starts
BridgeIdle ==
    /\ bpc = "idle"
    /\ breq = ""
    /\ bcli = << >>
    /\ btext = ""
    /\ bstream = FALSE
    /\ bwire = << >>
    /\ bresp = NoCompletion

\* do_POST up to the call of call_gemini
BridgePost(model, stream) ==
    /\ bpc \in {"idle", "done"}
    /\ breq' = model
    /\ bstream' = stream
    /\ bcli' = << >>
    /\ btext' = ""
    /\ bwire' = << >>
    /\ bresp' = NoCompletion
    /\ bpc' = "cli"
    /\ UNCHANGED << proxyVars, routerVars, unitVars >>

\* call_gemini returns after candidate number c ended with o
BridgeReturns(o, c) ==
    o.kind # "exit" \/ CliAccepted(o) \/ c >= Len(BridgeCandidates(breq))

\* call_gemini_text reporting a timeout like any other fault
call_gemini_text_timeout_as_error(o) ==
    CASE o.kind \in {"timeout", "fault"} -> "Gemini error: " \o o.err
      [] CliAccepted(o) -> Strip(o.out)
      [] OTHER -> "Gemini: no response"

\* the value call_gemini returns then
call_gemini_text(o) ==
    CASE o.kind = "timeout" -> "Gemini timeout"
      [] o.kind = "fault" -> "Gemini error: " \o o.err
      [] CliAccepted(o) -> Strip(o.out)
      [] OTHER -> "Gemini: no response"

\* one subprocess.run of the gemini CLI in call_gemini; when call_gemini
\* returns, do_POST writes the response
BridgeCli(o) ==
    /\ bpc = "cli"
    /\ bcli' = Append(bcli, [model |-> BridgeCandidates(breq)[Len(bcli) + 1], o |-> o])
    /\ IF BridgeReturns(o, Len(bcli) + 1)
       THEN /\ bpc' = "done"
            /\ btext' = call_gemini_text(o)
            /\ bwire' = IF bstream
                        THEN stream_openai_response(<< >>, call_gemini_text(o), breq)
                        ELSE bwire
            /\ bresp' = IF bstream THEN bresp
                        ELSE chat_completion(breq, call_gemini_text(o))
       ELSE UNCHANGED << bpc, btext, bwire, bresp >>
    /\ UNCHANGED << breq, bstream >>
    /\ UNCHANGED << proxyVars, routerVars, unitVars >>

BridgeNext ==
    \/ \E model \in BridgeModelIds, stream \in BOOLEAN : BridgePost(model, stream)
    \/ \E o \in CliOutcomes : BridgeCli(o)

\* the Secondary tier of the proxy: requests for a Gemini model
ProxySecondary ==
    \/ \E model \in ModelIds \cap GEMINI_MODELS, stream \in BOOLEAN :
           DoPOST(model, stream, << Message("user") >>)
    \/ \E o \in CliOutcomes : T2Cli(o)

(***************************************************************************)
(* The two slicing emitters on their own: stream_openai_response of the    *)
(* bridge and the streaming branch of route_gemini of the proxy, applied   *)
(* to a text of any length up to MaxTextLen.                               *)
(***************************************************************************)
SampleText ==
    "Pack my box with five dozen liquor jugs. How vexingly quick daft zebras jump! Ok."

\* the texts an adapter may hand to an emitter
Texts == {SubSeq(SampleText, 1, n) : n \in 0..Min(MaxTextLen, Len(SampleText))}

EmitterIdle == etext = ""

\* stream_openai_response(self.wfile, text, model)
EmitChunks ==
    /\ bwire = << >>
    /\ bwire' = stream_openai_response(<< >>, etext, DEFAULT_MODEL)
    /\ UNCHANGED << bpc, breq, bcli, btext, bstream, bresp >>
    /\ UNCHANGED << proxyVars, routerVars, unitVars >>

\* route_gemini: start_stream, one send_chunk per slice, end_stream
EmitBlocks ==
    /\ wire = << >>
    /\ wire' = gemini_stream(T2_MODEL, etext)
    /\ UNCHANGED << pc, body, resp, invoked, tokens, nlines, hung, cand, cliModels,
                    upstream, outcome >>
    /\ UNCHANGED << routerVars, bridgeVars, unitVars >>

EmitterNext == EmitChunks \/ EmitBlocks

(***************************************************************************)
(* router_proxy.py: _flatten and messages_to_prompt.  A JSON value is a    *)
(* record: t is its Python type; s the text of a str and the digits of an  *)
(* int; items the entries of a list; and for a dict, keys are the keys it  *)
(* has, with the values of "type", "text", "name", "input" (its pairs) and *)
(* "content" (a sequence of one value when the key is there).              *)
(***************************************************************************)
PyValue(t, s, items, keys, type, text, name, input, content) ==
    [t |-> t, s |-> s, items |-> items, keys |-> keys, type |-> type,
     text |-> text, name |-> name, input |-> input, content |-> content]

PyStr(s) == PyValue("str", s, << >>, {}, "", "", "", << >>, << >>)
PyInt(digits) == PyValue("int", digits, << >>, {}, "", "", "", << >>, << >>)
PyNone == PyValue("None", "", << >>, {}, "", "", "", << >>, << >>)
PyList(items) == PyValue("list", "", items, {}, "", "", "", << >>, << >>)

TextBlock(text) ==
    PyValue("dict", "", << >>, {"type", "text"}, "text", text, "", << >>, << >>)
ToolResult(content) ==
    PyValue("dict", "", << >>, {"type", "content"}, "tool_result", "", "", << >>,
            << content >>)
ToolUse(name, input) ==
    PyValue("dict", "", << >>, {"type", "name", "input"}, "tool_use", "", name, input,
            << >>)
\* {"type": type} and nothing else
TypedBlock(type) == PyValue("dict", "", << >>, {"type"}, type, "", "", << >>, << >>)
\* {"text": text}, without a type
UntypedBlock(text) == PyValue("dict", "", << >>, {"text"}, "", text, "", << >>, << >>)

\* "sep".join(parts)
RECURSIVE join(_, _)
join(sep, parts) ==
    IF Len(parts) = 0 THEN ""
    ELSE IF Len(parts) = 1 THEN parts[1]
    ELSE parts[1] \o sep \o join(sep, Tail(parts))

\* str(x) of a str, of None and of an int; of a dict whose keys are among
\* type, text and name, in that order.  No list is handed to str() here.
str(x) ==
    CASE x.t \in {"str", "int"} -> x.s
      [] x.t = "None" -> "None"
      [] OTHER ->
           "{" \o join(", ",
                       (IF "type" \in x.keys THEN << "'type': '" \o x.type \o "'" >>
                                              ELSE << >>)
                       \o (IF "text" \in x.keys THEN << "'text': '" \o x.text \o "'" >>
                                                 ELSE << >>)
                       \o (IF "name" \in x.keys THEN << "'name': '" \o x.name \o "'" >>
                                                 ELSE << >>))
               \o "}"

\* json.dumps of a dict of strings, given as its pairs
json_dumps(pairs) ==
    "{" \o join(", ", [i \in 1..Len(pairs) |->
                          "\"" \o pairs[i][1] \o "\": \"" \o pairs[i][2] \o "\""])
        \o "}"

\* the parts the loop of _flatten appends for the blocks, and _flatten
RECURSIVE flatten_parts(_)
RECURSIVE _flatten(_)
flatten_parts(blocks) ==
    IF Len(blocks) = 0 THEN << >>
    ELSE LET block == Head(blocks)
             btype == IF "type" \in block.keys THEN block.type ELSE ""
         IN  (CASE block.t # "dict" -> << str(block) >>
                [] block.t = "dict" /\ btype = "text" ->
                       << IF "text" \in block.keys THEN block.text ELSE "" >>
                [] block.t = "dict" /\ btype = "tool_result" ->
                       << _flatten(IF "content" \in block.keys THEN block.content[1]
                                                               ELSE PyStr("")) >>
                [] block.t = "dict" /\ btype = "tool_use" ->
                       << "[tool_use: "
                          \o (IF "name" \in block.keys THEN block.name ELSE "tool")
                          \o "(" \o json_dumps(block.input) \o ")]" >>
                [] OTHER -> << >>)
             \o flatten_parts(Tail(blocks))

_flatten(content) ==
    CASE content.t = "str" -> content.s
      [] content.t = "list" ->
             join("\n", SelectSeq(flatten_parts(content.items), LAMBDA q : q # ""))
      [] OTHER -> str(content)

\* an entry of the list messages: a dict with the keys it has, or something
\* that is not a dict
Msg(keys, role, content) ==
    [isdict |-> TRUE, keys |-> keys, role |-> role, content |-> content]
NotAMessage == [isdict |-> FALSE, keys |-> {}, role |-> "", content |-> PyStr("hi")]

\* what a call of messages_to_prompt ended with
Returned(text) == [called |-> TRUE, raised |-> "", text |-> text]
Raised(exception) == [called |-> TRUE, raised |-> exception, text |-> ""]
NotCalled == [called |-> FALSE, raised |-> "", text |-> ""]

\* if system: the truth value of system
Truthy(x) ==
    CASE x.t = "str" -> x.s # ""
      [] x.t = "list" -> Len(x.items) > 0
      [] x.t = "None" -> FALSE
      [] OTHER -> TRUE

\* the loop over messages: m.get raises for an entry that is not a dict
RECURSIVE prompt_parts(_, _)
prompt_parts(messages, parts) ==
    IF Len(messages) = 0 THEN Returned(join("\n", parts))
    ELSE LET m == Head(messages)
             role == IF "role" \in m.keys THEN m.role ELSE "user"
             content == _flatten(IF "content" \in m.keys THEN m.content ELSE PyStr(""))
         IN  IF ~m.isdict THEN Raised("AttributeError")
             ELSE prompt_parts(Tail(messages),
                               Append(parts, IF role # "user"
                                             THEN role \o ": " \o content
                                             ELSE content))

\* messages_to_prompt with the system annotation after the messages
messages_to_prompt_system_last(messages, system) ==
    LET r == prompt_parts(messages, << >>)
    IN  IF r.raised = "" /\ Truthy(system)
        THEN Returned(join("\n", (IF Len(messages) = 0 THEN << >> ELSE << r.text >>)
                                 \o << "[System: " \o _flatten(system) \o "]" >>))
        ELSE r

messages_to_prompt(messages, system) ==
    prompt_parts(messages,
                 IF Truthy(system) THEN << "[System: " \o _flatten(system) \o "]" >>
                 ELSE << >>)

\* content blocks a request may carry, well formed or not
Blocks ==
    {TextBlock("hello"), TextBlock(""),
     ToolResult(PyStr("42")), ToolResult(PyList(<< TextBlock("ok"), TypedBlock("image") >>)),
     ToolUse("search", << << "q", "tla" >> >>), TypedBlock("tool_use"),
     TypedBlock("image"), UntypedBlock("orphan"),
     PyStr("raw"), PyInt("7")}

BlockLists == UNION { [1..n -> Blocks] : n \in 0..MaxBlocks }

\* entries of messages
Entries ==
    {Msg({"role", "content"}, r, c) :
         r \in {"user", "assistant"},
         c \in {PyStr("ping"), PyList(<< TextBlock("a"), TextBlock("b") >>)}}
    \cup {Msg({"role", "content"}, "tool", PyList(<< ToolResult(PyStr("42")) >>)),
          Msg({"role", "content"}, "user", PyNone),
          Msg({"role", "content"}, "user", PyInt("7")),
          Msg({"content"}, "", PyStr("ping")),
          Msg({"role"}, "assistant", PyStr("")),
          NotAMessage}

EntryLists == UNION { [1..n -> Entries] : n \in 0..MaxMsgs }

\* the system field of a request: absent, a text, or blocks
Systems == {PyStr(""), PyStr("Be brief."), PyList(<< TextBlock("Be"), TextBlock("brief.") >>)}

\* the calls of messages_to_prompt made
NormalizerInputs ==
    [system : Systems, messages : EntryLists]
    \cup [system : {PyStr("")},
          messages : {<< Msg({"role", "content"}, "user", PyList(bs)) >> :
                          bs \in BlockLists}]

NormalizerIdle ==
    /\ nsystem = PyStr("")
    /\ nmessages = << >>
    /\ prompt = NotCalled

\* prompt = messages_to_prompt(messages, system)
Normalize ==
    /\ ~prompt.called
    /\ prompt' = messages_to_prompt(nmessages, nsystem)
    /\ UNCHANGED << etext, nsystem, nmessages, file, wpc, wline, wbuf >>
    /\ UNCHANGED << proxyVars, routerVars, bridgeVars >>

(***************************************************************************)
(* smart_router.py: _log_routing in several router processes at once.  The *)
(* file is opened for appending, so that each write of the operating       *)
(* system goes to the end of the file as it is then; the line is shorter   *)
(* than the buffer of the file object, which hands it to the operating     *)
(* system in one write when the with block closes the file.                *)
(***************************************************************************)
Writers == 1..MaxWriters

\* the tier labels route() logs
TierLabels == {"T1_OLLAMA_QWEN", "T2_GEMINI", "T3_CLAUDE_LAST_RESORT"}

\* json.dumps(entry) + "\n"; the timestamp and the task type are left out
json_line(tier, success) ==
    "{\"tier\": \"" \o tier \o "\", \"success\": "
        \o (IF success THEN "true" ELSE "false") \o "}\n"

\* the lines a call of _log_routing may write: success is always True
LogLines == {json_line(t, TRUE) : t \in TierLabels}

\* no process is writing the history
LogIdle ==
    /\ file = ""
    /\ wpc = << >>
    /\ wline = << >>
    /\ wbuf = << >>

\* the router processes have started, the history is empty
LogStart ==
    /\ file = ""
    /\ wpc = [w \in Writers |-> "idle"]
    /\ wline = [w \in Writers |-> ""]
    /\ wbuf = [w \in Writers |-> ""]

\* what is left unchanged by a step of _log_routing
LogFrame ==
    /\ UNCHANGED << etext, nsystem, nmessages, prompt >>
    /\ UNCHANGED << proxyVars, routerVars, bridgeVars >>

\* open(log_file, "a")
LogOpen(w) ==
    /\ wpc[w] = "idle"
    /\ wpc' = [wpc EXCEPT ![w] = "open"]
    /\ UNCHANGED << file, wline, wbuf >>
    /\ LogFrame

\* f.write(json.dumps(entry) + "\n"): the line goes to the buffer of f
LogWrite(w, line) ==
    /\ wpc[w] = "open"
    /\ wpc' = [wpc EXCEPT ![w] = "written"]
    /\ wline' = [wline EXCEPT ![w] = line]
    /\ wbuf' = [wbuf EXCEPT ![w] = wbuf[w] \o line]
    /\ UNCHANGED file
    /\ LogFrame

\* LogClose writing its buffer from the start of the file
LogCloseRewriting(w) ==
    /\ wpc[w] = "written"
    /\ wpc' = [wpc EXCEPT ![w] = "closed"]
    /\ file' = wbuf[w] \o SubSeq(file, Len(wbuf[w]) + 1, Len(file))
    /\ wbuf' = [wbuf EXCEPT ![w] = ""]
    /\ UNCHANGED wline
    /\ LogFrame

\* the end of the with block: the buffer is flushed, appended to the file
\* in one write, and the file is closed
LogClose(w) ==
    /\ wpc[w] = "written"
    /\ wpc' = [wpc EXCEPT ![w] = "closed"]
    /\ file' = file \o wbuf[w]
    /\ wbuf' = [wbuf EXCEPT ![w] = ""]
    /\ UNCHANGED wline
    /\ LogFrame

LogNext ==
    \/ \E w \in Writers : LogOpen(w)
    \/ \E w \in Writers, line \in LogLines : LogWrite(w, line)
    \/ \E w \in Writers : LogClose(w)

\* nothing has been handed to the emitters or to the normalizer, and no
\* process is writing the history
UnitIdle == EmitterIdle /\ NormalizerIdle /\ LogIdle

\* the proxy process starts; the CLI router is not part of it
Init == ProxyInit /\ CFG = DEFAULT_ROUTING /\ RouterIdle /\ BridgeIdle /\ UnitIdle

\* a CLI router process starts with the configuration load_config() returns
RouterInit ==
    ProxyInit /\ CFG \in RoutingConfigs /\ RouterIdle /\ BridgeIdle /\ UnitIdle

Next == ProxyNext

\* the HTTP proxy
Spec == Init /\ [][Next]_vars

\* the CLI router
RouterSpec == RouterInit /\ [][RouterNext]_vars

\* route(prompt, force_tier=2, gemini_model=m): one GeminiTier.run for
\* every requested model
GeminiRunNext ==
    \/ \E tt \in TaskTypes, m \in GeminiRequests : Route(2, tt, m)
    \/ \E launched \in BOOLEAN : GeminiLaunch(launched)
    \/ \E o \in GeminiOutcomes : GeminiCommunicate(o)
    \/ \E r \in GeminiResults : RouteForced(r)

GeminiRunSpec == Init /\ [][GeminiRunNext]_vars

\* the Secondary tier as deployed: the proxy serving Gemini models and the
\* bridge, two servers that share nothing
SecondaryNext == ProxySecondary \/ BridgeNext

SecondarySpec == Init /\ [][SecondaryNext]_vars

\* the emitters, for every text
EmitterInit ==
    /\ ProxyInit /\ CFG = DEFAULT_ROUTING /\ RouterIdle /\ BridgeIdle
    /\ etext \in Texts
    /\ NormalizerIdle
    /\ LogIdle

EmitterSpec == EmitterInit /\ [][EmitterNext]_vars

\* the normalizer, for every request drawn
NormalizerInit ==
    /\ ProxyInit /\ CFG = DEFAULT_ROUTING /\ RouterIdle /\ BridgeIdle
    /\ EmitterIdle
    /\ \E in \in NormalizerInputs : nsystem = in.system /\ nmessages = in.messages
    /\ prompt = NotCalled
    /\ LogIdle

NormalizerSpec == NormalizerInit /\ [][Normalize]_vars

\* several router processes and the history they share
LogInit ==
    /\ ProxyInit /\ CFG = DEFAULT_ROUTING /\ RouterIdle /\ BridgeIdle
    /\ EmitterIdle /\ NormalizerIdle
    /\ LogStart

LogSpec == LogInit /\ [][LogNext]_vars

\* The handler is a running thread: it takes its next step whenever one is
\* possible.  Nothing is assumed of a backend that has stopped responding.
FairSpec == Spec /\ WF_vars(Next)

(***************************************************************************)
(* Observations used by the properties.                                    *)
(***************************************************************************)
EvCount(w, e) == Cardinality({i \in 1..Len(w) : w[i].ev = e})

\* the request's last message is from the assistant
LastIsAssistant ==
    Len(body.messages) > 0 /\ body.messages[Len(body.messages)].role = "assistant"

\* the stream is served by the synthesized emitter: loop guard, Secondary, LastResort
Synthesized ==
    /\ pc # "idle"
    /\ body.stream
    /\ (LastIsAssistant \/ body.model \in GEMINI_MODELS \cup CLAUDE_REAL_MODELS)

\* message_start, content_block_start, deltas only
StartThenDeltas(w) ==
    /\ Len(w) >= 2
    /\ w[1].ev = "message_start"
    /\ w[2].ev = "content_block_start"
    /\ \A i \in 3..Len(w) : w[i].ev = "content_block_delta"

\* ... closed by content_block_stop, message_delta, message_stop
WellFormed(w) ==
    /\ Len(w) >= 5
    /\ StartThenDeltas(SubSeq(w, 1, Len(w) - 3))
    /\ w[Len(w) - 2].ev = "content_block_stop"
    /\ w[Len(w) - 1].ev = "message_delta"
    /\ w[Len(w)].ev = "message_stop"

EndsWithTerminal(w) ==
    /\ Len(w) >= 3
    /\ w[Len(w) - 2].ev = "content_block_stop"
    /\ w[Len(w) - 1].ev = "message_delta"
    /\ w[Len(w)].ev = "message_stop"

\* the adapter failed: transport error, timeout, non-zero exit or empty output
AdapterFailed ==
    \/ outcome.kind \in {"timeout", "fault", "http"}
    \/ outcome.kind = "exit" /\ (outcome.rc # 0 \/ Strip(outcome.out) = "")

(***************************************************************************)
(* C1.  Every stream served through the synthesized emitter (Secondary,    *)
(* LastResort, loop guard) is, whatever the backend did: one               *)
(* message_start, one content_block_start, zero or more                    *)
(* content_block_delta, then content_block_stop, message_delta,            *)
(* message_stop, and nothing after them; while the request is in progress  *)
(* the client has received the start and deltas only.                      *)
(***************************************************************************)
C1_SynthesizedStreamWellFormed ==
    Synthesized =>
        IF pc = "done" THEN WellFormed(wire) ELSE wire = << >> \/ StartThenDeltas(wire)

\* a LastResort stream whose process exited non-zero after printing a line
C1_Witness ==
    /\ Synthesized
    /\ pc = "done"
    /\ invoked = << "T3" >>
    /\ outcome.kind = "exit" /\ outcome.rc # 0
    /\ EvCount(wire, "content_block_delta") >= 2

(***************************************************************************)
(* C2.  On the Primary streaming path the client never receives a second   *)
(* message_start, nor a message_start after content was forwarded,         *)
(* wherever the backend transport fails.                                   *)
(***************************************************************************)
C2_PrimaryStreamNotCorrupted ==
    (body.stream /\ invoked = << "T1" >>) =>
        /\ EvCount(wire, "message_start") <= 1
        /\ \A i, j \in 1..Len(wire) :
              (i < j /\ wire[i].ev = "content_block_delta")
                  => wire[j].ev # "message_start"

(***************************************************************************)
(* C3.  Every streaming request that is being served eventually has its    *)
(* terminal sequence written, whatever the backend does.                   *)
(***************************************************************************)
C3_StreamEventuallyTerminated ==
    [] ((pc \notin {"idle", "done"} /\ body.stream)
            => <> (pc = "done" /\ EndsWithTerminal(wire)))

(***************************************************************************)
(* C4.  A request whose last message is from the assistant is answered     *)
(* without any adapter being invoked, whatever its model and stream flag:  *)
(* no tier is dispatched to, no CLI is run, nothing is read upstream.      *)
(***************************************************************************)
C4_LoopGuardBeforeDispatch ==
    (pc # "idle" /\ LastIsAssistant) =>
        /\ pc = "done"
        /\ invoked = << >>
        /\ cliModels = << >>
        /\ upstream = << >>
        /\ outcome.kind = "none"
        /\ (body.stream => WellFormed(wire))
        /\ (~body.stream => resp.sent)

\* a streaming LastResort-model request of two messages, stopped by the guard
C4_Witness ==
    /\ pc = "done"
    /\ LastIsAssistant
    /\ Len(body.messages) = 2
    /\ body.messages[1].role = "user"
    /\ body.model \in CLAUDE_REAL_MODELS
    /\ body.stream

(***************************************************************************)
(* C5.  The loop-guard response: streaming, exactly start and terminal     *)
(* sequences with no delta, stop reason end_turn and output_tokens 0;      *)
(* non-streaming, one object with empty text, end_turn and output_tokens 0.*)
(***************************************************************************)
C5_LoopGuardResponseEmpty ==
    (pc = "done" /\ LastIsAssistant) =>
        IF body.stream
        THEN /\ Len(wire) = 5
             /\ WellFormed(wire)
             /\ EvCount(wire, "content_block_delta") = 0
             /\ wire[4].stop = "end_turn"
             /\ wire[4].out = 0
             /\ wire[1].out = 0
             /\ ~resp.sent
        ELSE /\ wire = << >>
             /\ resp.sent
             /\ resp.text = ""
             /\ resp.stop_reason = "end_turn"
             /\ resp.output_tokens = 0

\* a non-streaming loop-guard answer
C5_Witness ==
    /\ pc = "done"
    /\ LastIsAssistant
    /\ ~body.stream
    /\ resp.sent

C7_PrefixClassification ==
    (pc # "idle" /\ ~LastIsAssistant) =>
        /\ (\E n \in CLAUDE_REAL_MODELS : StartsWith(body.model, n))
               => invoked[1] = "T3"
        /\ ((\E n \in GEMINI_MODELS : StartsWith(body.model, n))
              /\ ~(\E n \in CLAUDE_REAL_MODELS : StartsWith(body.model, n)))
               => invoked[1] = "T2"

C9_Case ==
    /\ pc = "done"
    /\ body.model \in CLAUDE_REAL_MODELS
    /\ ~body.stream
    /\ Len(body.messages) > 0
    /\ ~LastIsAssistant

\* the LastResort CLI ran to completion with status 0
C9_Succeeded == outcome.kind = "exit" /\ outcome.rc = 0

Invocations(t) == Cardinality({i \in 1..Len(calls) : calls[i] = t})

\* the tiers were invoked in non-decreasing rank
NonDecreasing(q) == \A i, j \in 1..Len(q) : i < j => q[i] <= q[j]

AutoEnded == force_tier = 0 /\ rpc \in {"returned", "raised"}

\* a run() is waiting for the child process it started
Waiting == apc \in {"t1_wait", "t2_wait", "t3_wait"}

\* the child processes the program waits for with a timeout
TimedChildren == {"curl", "gemini", "claude"}

(***************************************************************************)
(* C11 as stated.  With escalate_on_failure disabled an auto-routed call   *)
(* invokes the adapter of one tier at most: once the first attempted tier  *)
(* has exhausted its retries no later tier is invoked, Secondary after     *)
(* Primary no more than LastResort after Secondary.                        *)
(***************************************************************************)
C11_EscalationOnlyWithFlag ==
    (force_tier = 0 /\ ~CFG.escalate_on_failure) =>
        \A i, j \in 1..Len(calls) : calls[i] = calls[j]

(***************************************************************************)
(* C12.  In an auto-routed call a run() is accepted exactly when it        *)
(* reports success with text that is non-blank after strip(): at most one  *)
(* run() of the call does, route() then returns its text without invoking  *)
(* another adapter, and route() returns nothing but the all-tiers-failed   *)
(* message unless a run() did.                                             *)
(***************************************************************************)
C12_FirstAcceptedReturned ==
    force_tier = 0 =>
        /\ Len(accepted) <= 1
        /\ accepted # << >> =>
              /\ rpc = "returned"
              /\ result = accepted[1]
              /\ apc = "idle"
              /\ ret = Result(TRUE, result)
        /\ (rpc = "returned" /\ result # ALL_TIERS_FAILED) => accepted = << result >>
        /\ (rpc # "returned" /\ apc = "idle") => ~(ret.ok /\ Strip(ret.out) # "")

\* the Primary adapter failed once, then answered with unstripped text
C12_Witness ==
    /\ force_tier = 0
    /\ rpc = "returned"
    /\ calls = << 1, 1 >>
    /\ accepted = << " two words\n" >>
    /\ result = " two words\n"

(***************************************************************************)
(* C13 as stated.  An auto-routed call that has returned, served by some   *)
(* tier or failed at all of them, has appended exactly one line to the     *)
(* routing history.                                                        *)
(***************************************************************************)
C13_OneLogEntryPerCall ==
    (force_tier = 0 /\ rpc = "returned") => logged = 1

(***************************************************************************)
(* C14 as stated.  An auto-routed call ends by returning; it returns the   *)
(* all-tiers-failed message exactly when no run() of the call was          *)
(* accepted, and the accepted run()'s text in every other case.            *)
(***************************************************************************)
C14_FailedMessageIffNoneAccepted ==
    AutoEnded =>
        /\ rpc = "returned"
        /\ (result = ALL_TIERS_FAILED) <=> (accepted = << >>)
        /\ accepted # << >> => result = accepted[1]

(***************************************************************************)
(* C15.  A call with force_tier 1, 2 or 3 invokes the run() of that tier   *)
(* once and no other: it consults no probe, enters no retry loop, and has  *)
(* invoked exactly that one run() when it ends, whatever run() returned.   *)
(***************************************************************************)
C15_ForcedTierOnce ==
    force_tier \in 1..3 =>
        /\ rpc \in {"forced", "returned", "raised"}
        /\ calls \in {<< >>, << force_tier >>}
        /\ rpc \in {"returned", "raised"} => calls = << force_tier >>
        /\ apc # "idle" => calls = << force_tier >>
        /\ attempt = 0

\* the forced Secondary tier failed and the call returned at once
C15_Witness ==
    /\ force_tier = 2
    /\ rpc = "returned"
    /\ ret = Result(FALSE, "All Gemini models failed")
    /\ result = "T2 failed"
    /\ calls = << 2 >>

(***************************************************************************)
(* C16 as stated.  Once a run() of the Secondary tier has returned         *)
(* "Auth required", no further run() of the Secondary tier is started for  *)
(* the request.                                                            *)
(***************************************************************************)
C16_AuthStopsSecondaryRetries ==
    ~(/\ force_tier = 0
      /\ apc \in {"t2_wait", "t2_next"}
      /\ ret = Result(FALSE, "Auth required"))

(***************************************************************************)
(* C17 as stated.  No run() returns, or moves on to its next candidate,    *)
(* while a child process it started and waited for with a timeout is still *)
(* running: the child it waits for is the only one.                        *)
(***************************************************************************)
C17_TimeoutTerminatesChild ==
    /\ apc \in {"idle", "done", "t2_next"} =>
           \A i \in 1..Len(children) : children[i] \notin TimedChildren
    /\ Waiting => Len(children) = 1

(***************************************************************************)
(* C18 as stated.  No run() of a tier ends in an exception: every fault,   *)
(* the failure to start a child process included, comes back to route()    *)
(* as a failure result.                                                    *)
(***************************************************************************)
C18_NoFaultEscapesAdapter ==
    /\ ret.kind # "raise"
    /\ rpc # "raised"

(***************************************************************************)
(* C19 as stated.  At every moment at most one child process started for   *)
(* the request is running, and a run() begins only when every child of the *)
(* earlier run()s of the request has finished.                             *)
(***************************************************************************)
C19_OneProcessAtATime ==
    /\ Len(children) + orphans <= 1
    /\ orphans = 0

\* the model the bridge passes to the CLI first for the request in hand
C20_BridgeFirst ==
    IF breq \in {"gemini-2.5-pro", "gemini-2.5-flash", "gemini-2.0-flash",
                 "gemini-3-flash-preview", "gemini-3-pro-preview"}
    THEN breq
    ELSE "gemini-2.5-pro"

\* a CLI run that exited with status 0 and non-blank standard output
C20_Good(o) == o.kind = "exit" /\ o.rc = 0 /\ Strip(o.out) # ""

\* a CLI run that exited, with another status or with blank standard output
C20_Poor(o) == o.kind = "exit" /\ (o.rc # 0 \/ Strip(o.out) = "")

\* the text the proxy's client has received
C20_ProxyText == IF body.stream THEN DeltaText(wire) ELSE resp.text

(***************************************************************************)
(* C20.  call_gemini_cli of the proxy and call_gemini of the bridge pass   *)
(* their candidates to the CLI in a fixed order: T2_MODEL, then            *)
(* "gemini-2.5-flash", in the proxy; the requested model as the bridge     *)
(* resolves it, then DEFAULT_MODEL, in the bridge.  The second candidate   *)
(* runs only after the first exited with a non-zero status or blank        *)
(* output, and the stripped output of the first candidate to exit with     *)
(* status 0 and non-blank output is what the adapter returns.              *)
(***************************************************************************)
C20_SecondaryCandidateOrder ==
    /\ Len(cliModels) <= 2
    /\ Len(cliModels) >= 1 => cliModels[1] = T2_MODEL
    /\ Len(cliModels) = 2 => cliModels[2] = "gemini-2.5-flash"
    /\ (pc = "t2_cli" /\ Len(cliModels) = 1) => C20_Poor(outcome)
    /\ (pc = "done" /\ Len(cliModels) >= 1 /\ C20_Good(outcome)) =>
           C20_ProxyText = Strip(outcome.out)
    /\ Len(bcli) <= 2
    /\ Len(bcli) >= 1 => bcli[1].model = C20_BridgeFirst
    /\ Len(bcli) = 2 => bcli[2].model = "gemini-2.5-pro" /\ C20_Poor(bcli[1].o)
    /\ (bpc = "cli" /\ Len(bcli) = 1) => C20_Poor(bcli[1].o)
    /\ (bpc = "done" /\ C20_Good(Last(bcli).o)) => btext = Strip(Last(bcli).o.out)

\* in the proxy and in the bridge the first candidate failed and the second
\* answered
C20_Witness ==
    /\ pc = "done"
    /\ cliModels = << "gemini-2.5-flash", "gemini-2.5-flash" >>
    /\ ~body.stream
    /\ resp.text = "pong"
    /\ bpc = "done"
    /\ breq = "gemini-2.5-flash"
    /\ Len(bcli) = 2
    /\ bcli[1].o.rc = 1
    /\ bcli[2].model = "gemini-2.5-pro"
    /\ btext = "pong"

\* the content chunks of a chat-completion-chunk stream, in order
ContentChunks(w) ==
    SelectSeq(w, LAMBDA c : c.line = "chunk" /\ c.keys = {"content"})

\* the content_block_delta events of a message-block stream, in order
Deltas(w) == SelectSeq(w, LAMBDA e : e.ev = "content_block_delta")

(***************************************************************************)
(* C21.  Every streaming response of the bridge, for a text of length L,   *)
(* is written whole and consists, in this order, of one role chunk (role   *)
(* assistant, empty content, no finish reason), ceil(L/20) content chunks  *)
(* whose delta holds nothing but the next slice of the text, one chunk     *)
(* with an empty delta and finish_reason stop, and the [DONE] line.  For   *)
(* L = 45 the content chunks carry 20, 20 and 5 characters.                *)
(***************************************************************************)
C21_BridgeChunkStream ==
    /\ (bpc # "done" \/ ~bstream) => bwire = << >>
    /\ (bpc = "done" /\ bstream) =>
           LET L == Len(btext)
               n == (L + 19) \div 20
           IN  /\ Len(bwire) = n + 3
               /\ bwire[1] = [line |-> "chunk", model |-> breq,
                              keys |-> {"role", "content"}, role |-> "assistant",
                              content |-> "", finish_reason |-> ""]
               /\ \A k \in 1..n :
                      bwire[k + 1] =
                          [line |-> "chunk", model |-> breq, keys |-> {"content"},
                           role |-> "",
                           content |-> SubSeq(btext, 20 * (k - 1) + 1,
                                              IF 20 * k < L THEN 20 * k ELSE L),
                           finish_reason |-> ""]
               /\ bwire[n + 2] = [line |-> "chunk", model |-> breq, keys |-> {},
                                  role |-> "", content |-> "",
                                  finish_reason |-> "stop"]
               /\ bwire[n + 3].line = "[DONE]"
               /\ L = 45 =>
                      /\ Len(ContentChunks(bwire)) = 3
                      /\ Len(bwire[2].content) = 20
                      /\ Len(bwire[3].content) = 20
                      /\ Len(bwire[4].content) = 5

\* a streaming response of the bridge for a text of 45 characters
C21_Witness ==
    /\ bpc = "done"
    /\ bstream
    /\ Len(btext) = 45
    /\ Len(bwire) = 6
    /\ bwire[4].content = "dogs."

\* the fragments of a sequence of events, joined in order
RECURSIVE C22_Joined(_, _)
C22_Joined(q, field) ==
    IF Len(q) = 0 THEN "" ELSE Head(q)[field] \o C22_Joined(Tail(q), field)

\* q slices text into pieces of size S: ceil(L/S) of them, all but the last
\* of S characters, the last not empty, and joined they are text
C22_Sliced(q, field, text, S) ==
    /\ Len(q) = (Len(text) + S - 1) \div S
    /\ \A k \in 1..Len(q) :
           /\ k < Len(q) => Len(q[k][field]) = S
           /\ Len(q[k][field]) \in 1..S
    /\ C22_Joined(q, field) = text

(***************************************************************************)
(* C22.  An emitter slices a text of length L into ceil(L/S) content       *)
(* events, S = 20 for the chunks of the bridge and S = 30 for the deltas   *)
(* of the proxy's Secondary stream; every slice but the last has exactly S *)
(* characters, and the slices joined in order are the text.                *)
(***************************************************************************)
C22_SlicesReproduceText ==
    /\ bwire # << >> => C22_Sliced(ContentChunks(bwire), "content", etext, 20)
    /\ wire # << >> => C22_Sliced(Deltas(wire), "text", etext, 30)

\* a text of 60 characters went through both emitters
C22_Witness ==
    /\ Len(etext) = 60
    /\ Len(ContentChunks(bwire)) = 3
    /\ Len(Deltas(wire)) = 2

\* a finished stream written by the emitter for the Secondary tier, for the
\* LastResort tier, or for the Primary tier after an error at the start
C23_SynthesizedByTier ==
    /\ pc = "done"
    /\ body.stream
    /\ \/ invoked = << "T2" >>
       \/ invoked = << "T3" >>
       \/ invoked = << "T1" >> /\ outcome.kind \in {"http", "fault"} /\ upstream = << >>

\* the output_tokens of the message_delta event of a finished stream
C23_StreamedTokens == wire[Len(wire) - 1].out

(***************************************************************************)
(* C23.  In every stream the proxy synthesizes (Secondary, LastResort with *)
(* its error fragment, Primary error) the output_tokens of message_delta   *)
(* is the number of whitespace-delimited words of all the                  *)
(* content_block_delta texts of the stream, joined.                        *)
(***************************************************************************)
C23_OutputTokensCountDeltaWords ==
    C23_SynthesizedByTier => C23_StreamedTokens = WordCount(DeltaText(wire))

\* the texts the non-streaming branch of the tier returns for the backend
\* output the finished streaming request met
C24_NonStreamTexts ==
    CASE invoked = << "T3" >> -> {claude_real_text(outcome)}
      [] invoked = << "T2" >> -> {gemini_cli_text(outcome, cand)}
      [] outcome.kind = "http" -> {qwen_http_error(c, outcome.err) : c \in HttpCodes}
      [] OTHER -> {qwen_error(outcome.err)}

(***************************************************************************)
(* C24.  For the same tier and the same backend output, the streamed       *)
(* content deltas joined are the content text of the non-streaming         *)
(* response object, and the streamed output_tokens is the output_tokens of *)
(* that object.                                                            *)
(***************************************************************************)
C24_StreamEqualsNonStream ==
    C23_SynthesizedByTier =>
        \E text \in C24_NonStreamTexts :
            /\ DeltaText(wire) = text
            /\ C23_StreamedTokens = non_stream_response(body.model, text).output_tokens

(***************************************************************************)
(* C25.  On the Primary streaming path, as long as no transport error      *)
(* occurred, what has been written to the client is exactly what has been  *)
(* read from the backend, chunk by chunk in the order read: the emitter    *)
(* wrote no envelope, content or terminal event of its own.                *)
(***************************************************************************)
C25_PrimaryPassthroughExact ==
    (body.stream /\ invoked = << "T1" >> /\ outcome.kind \notin {"http", "fault"}) =>
        /\ wire = upstream
        /\ resp = NoResponse

\* a whole backend stream with content was passed through
C25_Witness ==
    /\ pc = "done"
    /\ body.stream
    /\ invoked = << "T1" >>
    /\ outcome.kind = "exit"
    /\ Len(upstream) = 7
    /\ wire = upstream
    /\ DeltaText(wire) = "ponga b"

\* the request has one user message whose content is a list of blocks, and
\* no system text
C26_BlocksOnly ==
    /\ prompt.called
    /\ nsystem = PyStr("")
    /\ Len(nmessages) = 1
    /\ nmessages[1].isdict
    /\ nmessages[1].keys = {"role", "content"}
    /\ nmessages[1].role = "user"
    /\ nmessages[1].content.t = "list"

\* what a block is to contribute: its text, its flattened content, the
\* annotation with its name and input, and for any other shape its string form
C26_Contribution(b) ==
    CASE b.t = "dict" /\ "type" \in b.keys /\ b.type = "text" -> b.text
      [] b.t = "dict" /\ "type" \in b.keys /\ b.type = "tool_result" ->
             _flatten(IF "content" \in b.keys THEN b.content[1] ELSE PyStr(""))
      [] b.t = "dict" /\ "type" \in b.keys /\ b.type = "tool_use" ->
             "[tool_use: " \o (IF "name" \in b.keys THEN b.name ELSE "tool")
                 \o "(" \o json_dumps(b.input) \o ")]"
      [] OTHER -> str(b)

(***************************************************************************)
(* C26.  _flatten drops no block of a content list: the flattened text is  *)
(* the contributions of the blocks, in order, one per line, where a text   *)
(* block contributes its text, a tool_result block its flattened content,  *)
(* a tool_use block its annotation, and a block of any other shape, a dict *)
(* of an unrecognized type included, its string form.                      *)
(***************************************************************************)
C26_NoBlockDropped ==
    C26_BlocksOnly =>
        LET bs == nmessages[1].content.items
        IN  prompt = Returned(join("\n",
                         SelectSeq([i \in 1..Len(bs) |-> C26_Contribution(bs[i])],
                                   LAMBDA q : q # "")))

\* every entry of messages is a message: a record with a role and a content
C27_MessageList ==
    \A i \in 1..Len(nmessages) :
        nmessages[i].isdict /\ nmessages[i].keys = {"role", "content"}

\* the entry of one message
C27_Entry(m) ==
    IF m.role = "user" THEN _flatten(m.content)
    ELSE m.role \o ": " \o _flatten(m.content)

(***************************************************************************)
(* C27.  For every list of messages and every system text, the prompt is   *)
(* the lines, joined by newlines, of: the annotation [System: ...] first   *)
(* when there is a system text, then one entry per message in the order of *)
(* the list, the flattened content alone for a user message and            *)
(* "role: " in front of the flattened content for any other role.          *)
(***************************************************************************)
C27_PromptLayout ==
    (prompt.called /\ C27_MessageList) =>
        prompt = Returned(join("\n",
                     (IF nsystem = PyStr("") THEN << >>
                      ELSE << "[System: " \o _flatten(nsystem) \o "]" >>)
                     \o [i \in 1..Len(nmessages) |-> C27_Entry(nmessages[i])]))

\* a system text, an assistant message and a user message of two blocks
C27_Witness ==
    /\ prompt.called
    /\ nsystem = PyStr("Be brief.")
    /\ Len(nmessages) = 2
    /\ nmessages[1].role = "assistant"
    /\ nmessages[2].role = "user"
    /\ prompt.text = "[System: Be brief.]\nassistant: ping\na\nb"

(***************************************************************************)
(* C28.  messages_to_prompt has no error outcome: whatever the request     *)
(* holds, a message without role or content, a content that is neither    *)
(* text nor a list, an entry that is not a record, the call returns a      *)
(* string and never raises, and the malformed or missing part is rendered  *)
(* as the empty string.                                                    *)
(***************************************************************************)
C28_NormalizerNeverRaises ==
    prompt.called =>
        /\ prompt.raised = ""
        /\ (/\ nsystem = PyStr("")
            /\ Len(nmessages) = 1
            /\ nmessages[1].isdict
            /\ nmessages[1].role \in {"", "user"}
            /\ ("content" \notin nmessages[1].keys
                    \/ nmessages[1].content.t \notin {"str", "list"}))
               => prompt.text = ""

\* the lines of a file: what ends with a newline, and what is left after
\* the last newline if anything is
RECURSIVE C29_Lines(_, _)
C29_Lines(f, start) ==
    IF start > Len(f) THEN << >>
    ELSE LET ends == {i \in start..Len(f) : CharAt(f, i) = "\n"}
         IN  IF ends = {} THEN << SubSeq(f, start, Len(f)) >>
             ELSE LET end == CHOOSE i \in ends : \A j \in ends : i <= j
                  IN  << SubSeq(f, start, end) >> \o C29_Lines(f, end + 1)

\* how many times x occurs in q
C29_Count(q, x) == Cardinality({i \in DOMAIN q : q[i] = x})

(***************************************************************************)
(* C29.  Whatever the interleaving of the router processes appending to    *)
(* the history, the file holds exactly the lines whose append has          *)
(* completed, each one whole and as many times as it was appended: no line *)
(* is split, merged with another or lost, and once every process is done   *)
(* every line handed to f.write is there.                                  *)
(***************************************************************************)
C29_ConcurrentAppendsKeepLines ==
    LET lines == C29_Lines(file, 1)
    IN  /\ \A i \in DOMAIN lines : lines[i] \in LogLines
        /\ \A l \in LogLines :
               C29_Count(lines, l) =
                   Cardinality({w \in DOMAIN wpc : wpc[w] = "closed" /\ wline[w] = l})

\* the second writer opened and wrote while the first was between its open
\* and its close, and closed before it; all lines are in the file
C29_Witness ==
    /\ \A w \in DOMAIN wpc : wpc[w] = "closed"
    /\ Len(wpc) >= 2
    /\ wline[1] = json_line("T1_OLLAMA_QWEN", TRUE)
    /\ wline[2] = json_line("T2_GEMINI", TRUE)
    /\ StartsWith(file, wline[2] \o wline[1])

(***************************************************************************)
(* C30.  During one call of the Secondary adapter, call_gemini_cli of the  *)
(* proxy or call_gemini of the bridge, no model name is passed to the CLI  *)
(* more than once: every run is for another candidate model.               *)
(***************************************************************************)
C30_NoModelPassedTwice ==
    /\ \A i, j \in DOMAIN cliModels : i # j => cliModels[i] # cliModels[j]
    /\ \A i, j \in DOMAIN bcli : i # j => bcli[i].model # bcli[j].model

\* the Secondary request of the proxy has been answered
C31_ProxyAnswered ==
    /\ pc = "done"
    /\ invoked = << "T2" >>
    /\ IF body.stream THEN WellFormed(wire) ELSE resp.sent

(***************************************************************************)
(* C31.  In call_gemini_cli of the proxy and in call_gemini of the bridge, *)
(* a candidate whose run times out makes the adapter return "Gemini        *)
(* timeout", and a candidate whose run fails in any other way makes it     *)
(* return "Gemini error: " followed by the detail of the fault.  The       *)
(* adapter returns at once: the run that timed out or failed is the last   *)
(* one of the call, and the handler goes on to answer the request.         *)
(***************************************************************************)
C31_TimeoutAndFaultStopAdapter ==
    /\ (Len(cliModels) >= 1 /\ outcome.kind \in {"timeout", "fault"}) =>
           /\ C31_ProxyAnswered
           /\ outcome.kind = "timeout" => C20_ProxyText = "Gemini timeout"
           /\ outcome.kind = "fault" => C20_ProxyText = "Gemini error: " \o outcome.err
    /\ \A i \in DOMAIN bcli :
           bcli[i].o.kind \in {"timeout", "fault"} =>
               /\ i = Len(bcli)
               /\ bpc = "done"
               /\ bcli[i].o.kind = "timeout" => btext = "Gemini timeout"
               /\ bcli[i].o.kind = "fault" => btext = "Gemini error: " \o bcli[i].o.err
               /\ IF bstream THEN Len(bwire) >= 4 ELSE bresp.content = btext

\* the second candidate of the proxy could not be run, and the first
\* candidate of the bridge timed out
C31_Witness ==
    /\ pc = "done"
    /\ Len(cliModels) = 2
    /\ outcome.kind = "fault"
    /\ body.stream
    /\ DeltaText(wire) = "Gemini error: [Errno 2] No such file or directory"
    /\ bpc = "done"
    /\ Len(bcli) = 1
    /\ bcli[1].o.kind = "timeout"
    /\ btext = "Gemini timeout"

(***************************************************************************)
(* C32.  The Secondary adapter always yields a text that is not empty,     *)
(* also when no candidate is accepted: a streamed Secondary response of    *)
(* the proxy or of the bridge holds at least one content event, none of    *)
(* them empty, and a non-streaming one has a content that is not empty.    *)
(***************************************************************************)
C32_SecondaryTextNeverEmpty ==
    /\ (pc = "done" /\ invoked = << "T2" >>) =>
           IF body.stream
           THEN /\ Len(Deltas(wire)) >= 1
                /\ \A i \in DOMAIN Deltas(wire) : Deltas(wire)[i].text # ""
           ELSE resp.sent /\ resp.text # ""
    /\ bpc = "done" =>
           /\ btext # ""
           /\ IF bstream
              THEN /\ Len(ContentChunks(bwire)) >= 1
                   /\ \A i \in DOMAIN ContentChunks(bwire) :
                          ContentChunks(bwire)[i].content # ""
              ELSE bresp.sent /\ bresp.content # ""

\* both candidates exited with blank output or a non-zero status, in the
\* proxy for a streamed request and in the bridge for a non-streaming one
C32_Witness ==
    /\ pc = "done"
    /\ body.stream
    /\ Len(cliModels) = 2
    /\ outcome.kind = "exit"
    /\ ~CliAccepted(outcome)
    /\ DeltaText(wire) = "Gemini: no response"
    /\ bpc = "done"
    /\ ~bstream
    /\ Len(bcli) = 2
    /\ bcli[2].o.rc = 0
    /\ Strip(bcli[2].o.out) = ""
    /\ bresp.content = "Gemini: no response"

(***************************************************************************)
(* Observations of route()'s log lines and availability probes.            *)
(***************************************************************************)
\* the label route() logs for a tier
LabelOf(t) ==
    CASE t = 1 -> "T1_OLLAMA_QWEN"
      [] t = 2 -> "T2_GEMINI"
      [] OTHER -> "T3_CLAUDE_LAST_RESORT"

\* the answers is_available() of tier t gave in this call
ProbesOf(t) == SelectSeq(probed, LAMBDA p : p.tier = t)

\* this call skipped tier t: its probe answered False
Skipped(t) == \E i \in DOMAIN probed : probed[i].tier = t /\ ~probed[i].available

(***************************************************************************)
(* C33.  Every line route() appends to the history has success true; a     *)
(* call appends at most one line, and only when it returns the text of     *)
(* the last run() it invoked, which succeeded; the line's tier label names *)
(* the tier of that run(), so no line names a tier that did not serve.     *)
(***************************************************************************)
C33_LogNamesServingTier ==
    /\ \A i \in DOMAIN history : history[i].success
    /\ logged <= 1
    /\ logged <= Len(history)
    /\ logged = 1 =>
           /\ rpc = "returned"
           /\ force_tier = 0
           /\ calls # << >>
           /\ ret.kind = "return"
           /\ ret.ok
           /\ result = ret.out
           /\ Last(history).tier = LabelOf(Last(calls))
           /\ Last(history).task_type = task

\* the Secondary tier served after the Primary tier had failed twice
C33_Witness ==
    /\ rpc = "returned"
    /\ calls = << 1, 1, 2 >>
    /\ result = "pong"
    /\ logged = 1
    /\ Last(history) = [tier |-> "T2_GEMINI", task_type |-> task, success |-> TRUE]

(***************************************************************************)
(* C34 as stated.  In an auto-routed call a Primary or Secondary tier      *)
(* whose is_available() answered False is never invoked, the Primary tier  *)
(* is neither probed nor invoked when always_try_t1_first is off, and      *)
(* after a skipped tier routing goes on with the next one: the Secondary   *)
(* probe after Primary, the LastResort run after Secondary.                *)
(***************************************************************************)
C34_SkippedTierThenNext ==
    (force_tier = 0 /\ rpc # "idle") =>
        /\ \A t \in {1, 2} : Skipped(t) => Invocations(t) = 0
        /\ ~CFG.always_try_t1_first =>
               /\ Invocations(1) = 0
               /\ ProbesOf(1) = << >>
               /\ rpc = "t2_probe" \/ ProbesOf(2) # << >>
        /\ Skipped(1) => (rpc = "t2_probe" \/ ProbesOf(2) # << >>)
        /\ Skipped(2) => (rpc = "t3_run" \/ Invocations(3) = 1)

(***************************************************************************)
(* C34 as amended.  The same, except that after a skipped Secondary tier   *)
(* routing goes on with the LastResort run only when escalate_on_failure   *)
(* is set; with the flag off the call returns the all-tiers-failed message *)
(* without invoking any further adapter.                                   *)
(***************************************************************************)
C34_SkippedTierNeverInvoked ==
    (force_tier = 0 /\ rpc # "idle") =>
        /\ \A t \in {1, 2} : Skipped(t) => Invocations(t) = 0
        /\ ~CFG.always_try_t1_first =>
               /\ Invocations(1) = 0
               /\ ProbesOf(1) = << >>
               /\ rpc = "t2_probe" \/ ProbesOf(2) # << >>
        /\ Skipped(1) => (rpc = "t2_probe" \/ ProbesOf(2) # << >>)
        /\ Skipped(2) =>
               IF CFG.escalate_on_failure
               THEN rpc = "t3_run" \/ Invocations(3) = 1
               ELSE /\ rpc = "returned"
                    /\ result = ALL_TIERS_FAILED
                    /\ Invocations(3) = 0

\* both probes answered False and the call went on to the LastResort tier
C34_Witness ==
    /\ rpc = "returned"
    /\ force_tier = 0
    /\ CFG.always_try_t1_first
    /\ CFG.max_retries_per_tier = 2
    /\ probed = << [tier |-> 1, available |-> FALSE], [tier |-> 2, available |-> FALSE] >>
    /\ calls = << 3 >>

(***************************************************************************)
(* C35.  In an auto-routed call the LastResort adapter is invoked at most  *)
(* once whatever max_retries_per_tier is, and no is_available() of the     *)
(* LastResort tier is consulted: with escalate_on_failure set a call never *)
(* returns the all-tiers-failed message without having invoked it.         *)
(***************************************************************************)
C35_LastResortOnceUnprobed ==
    force_tier = 0 =>
        /\ Invocations(3) <= 1
        /\ ProbesOf(3) = << >>
        /\ Invocations(3) = 1 => CFG.escalate_on_failure
        /\ (rpc = "returned" /\ logged = 0 /\ CFG.escalate_on_failure) => Invocations(3) = 1

\* max_retries_per_tier is 2, both earlier tiers used their two rounds, and
\* the claude CLI, which no probe looked for, could not be started
C35_Witness ==
    /\ rpc = "returned"
    /\ force_tier = 0
    /\ CFG.max_retries_per_tier = 2
    /\ calls = << 1, 1, 2, 2, 3 >>
    /\ ~ret.ok
    /\ ret.out \in FaultTexts
    /\ result = ALL_TIERS_FAILED

(***************************************************************************)
(* Observations of one GeminiTier.run.                                     *)
(***************************************************************************)
\* the model GeminiTier.run starts with: the requested one, else the default
FirstModel == IF gmodel = "" THEN TIER2_DEFAULT_MODEL ELSE gmodel

\* the candidates in the order run() passes them to the CLI
Candidates == attempt_models(gmodel)

\* where model x stands in the configured list
ConfiguredAt(x) == CHOOSE i \in DOMAIN TIER2_MODELS : TIER2_MODELS[i] = x

\* the candidate exited 0 with non-blank output
CandidateSucceeded(o) == o.kind = "exit" /\ o.rc = 0 /\ Strip(o.out) # ""

\* the candidate exited and its error output mentions authentication
CandidateAuth(o) == o.kind = "exit" /\ AuthError(o.err)

\* requested model first, then the configured models other than it, each
\* once and in configured order
CandidateOrder ==
    /\ Candidates[1] = FirstModel
    /\ \A i, j \in DOMAIN Candidates : i # j => Candidates[i] # Candidates[j]
    /\ \A i \in DOMAIN TIER2_MODELS :
           \E j \in DOMAIN Candidates : Candidates[j] = TIER2_MODELS[i]
    /\ \A i \in 2..Len(Candidates) :
           /\ \E k \in DOMAIN TIER2_MODELS : TIER2_MODELS[k] = Candidates[i]
           /\ \A j \in 2..Len(Candidates) :
                  i < j => ConfiguredAt(Candidates[i]) < ConfiguredAt(Candidates[j])

\* run() goes on only past a candidate that neither succeeded nor reported
\* authentication, and only while a candidate is left
MovedOn ==
    /\ gcand <= Len(Candidates)
    /\ apc = "t2_next" =>
           /\ gcand < Len(Candidates)
           /\ glast.kind \in {"exit", "timeout", "fault"}
           /\ ~CandidateSucceeded(glast)
           /\ ~CandidateAuth(glast)

(***************************************************************************)
(* C36 as stated.  One GeminiTier.run passes the requested or default      *)
(* model first and then every other configured model at most once in       *)
(* configured order; it returns success at a candidate that exits 0 with   *)
(* non-blank output, returns failure at a candidate whose error output     *)
(* mentions authentication, whatever else that candidate did, goes on      *)
(* after a timeout or any other fault, and returns failure once every      *)
(* candidate has been tried.                                               *)
(***************************************************************************)
C36_AuthAlwaysStops ==
    (InRun = 2 /\ apc # "idle") =>
        /\ CandidateOrder
        /\ gcand <= Len(Candidates)
        /\ apc = "t2_next" =>
               /\ gcand < Len(Candidates)
               /\ ~CandidateSucceeded(glast)
               /\ ~CandidateAuth(glast)
        /\ apc = "done" =>
               /\ CandidateAuth(glast) => ret = Result(FALSE, "Auth required")
               /\ CandidateSucceeded(glast) => ret = Result(TRUE, Strip(glast.out))
               /\ (~CandidateSucceeded(glast) /\ ~CandidateAuth(glast)) =>
                      /\ gcand = Len(Candidates)
                      /\ ret = Result(FALSE, "All Gemini models failed")

(***************************************************************************)
(* C36 as amended.  The same, except that the authentication stop applies  *)
(* only to a candidate that did not succeed: a candidate that exits 0 with *)
(* non-blank output ends the run with success even when its error output   *)
(* mentions authentication.                                                *)
(***************************************************************************)
C36_CandidatesInOrderUntilStop ==
    (InRun = 2 /\ apc # "idle") =>
        /\ CandidateOrder
        /\ MovedOn
        /\ apc = "t2_wait" => (gcand >= 1 /\ glast = NoOutcome)
        /\ apc = "done" =>
               /\ gcand >= 1
               /\ ret = IF CandidateSucceeded(glast)
                        THEN Result(TRUE, Strip(glast.out))
                        ELSE IF CandidateAuth(glast)
                        THEN Result(FALSE, "Auth required")
                        ELSE Result(FALSE, "All Gemini models failed")
               /\ (~CandidateSucceeded(glast) /\ ~CandidateAuth(glast)) =>
                      gcand = Len(Candidates)

\* a model outside the configured list was requested: it timed out, the
\* first configured model could not be started, the second one answered
C36_Witness ==
    /\ InRun = 2
    /\ gmodel = "gemini-exp"
    /\ Candidates = << "gemini-exp", "gemini-2.5-pro", "gemini-2.5-flash" >>
    /\ apc = "done"
    /\ gcand = 3
    /\ children = << "gemini" >>
    /\ CandidateSucceeded(glast)
    /\ ret = Result(TRUE, "pong")

====
